---------------------------- MODULE Spec2Model ----------------------------
(***************************************************************************)
(* A model of the recruitment-pipeline tools of src/src/tools.ts: the      *)
(* record store (contractors, jobs, shortlists, shortlist items,           *)
(* engagements), the dynamic query builder of search_contractors and       *)
(* list_jobs, the matching engine, and the lifecycle operations, run by    *)
(* concurrent agent sessions whose store round-trips interleave.           *)
(*                                                                         *)
(* Free text is a sequence of one-character strings, so that LOWER and     *)
(* LIKE are computed and not assumed.  Enumerated columns (availability,   *)
(* the status columns) are TLA+ strings.                                   *)
(***************************************************************************)
EXTENDS Integers, Sequences, FiniteSets, TLC

(***************************************************************************)
(* Text values                                                             *)
(***************************************************************************)
London == <<"L", "o", "n", "d", "o", "n">>
london == <<"l", "o", "n", "d", "o", "n">>
LONDON == <<"L", "O", "N", "D", "O", "N">>
Leeds == <<"L", "e", "e", "d", "s">>
Ann == <<"A", "n", "n">>
Bob == <<"B", "o", "b">>
Cy == <<"C", "y">>
Auditor == <<"A", "u", "d", "i", "t", "o", "r">>
Pentester == <<"P", "e", "n", "t", "e", "s", "t", "e", "r">>
Analyst == <<"A", "n", "a", "l", "y", "s", "t">>
ISO == <<"I", "S", "O">>
CISSP == <<"C", "I", "S", "S", "P">>
SIEM == <<"S", "I", "E", "M">>
Pentest == <<"P", "e", "n", "t", "e", "s", "t">>
Banking == <<"B", "a", "n", "k", "i", "n", "g">>
NHS == <<"N", "H", "S">>
SC == <<"S", "C">>
siem == <<"s", "i", "e", "m">>
banking == <<"b", "a", "n", "k", "i", "n", "g">>
sc == <<"s", "c">>
DropInjection == <<"'", ";", " ", "D", "R", "O", "P", " ", "T", "A", "B", "L", "E", " ", "c", "o", "n", "t", "r", "a", "c", "t", "o", "r", "s", ";", " ", "-", "-">>
OrInjection == <<"'", " ", "O", "R", " ", "1", "=", "1", " ", "-", "-">>
StrongFit == <<"f", "i", "t">>
Backup == <<"a", "l", "t">>
AnyLetter == <<"a", "_", "n">>
AnyText == <<"%">>
EmptyText == << >>

\* SQL NULL, and JavaScript null / undefined, for a text value: no text holds
\* the element "NULL", every character being one character long.
NULL == <<"NULL">>
\* The same for a text[] value.
NULLARR == <<NULL>>
\* The same for a number (no stored or supplied number is negative).
NONUM == -1
\* The same for a generated shortlist id (ids are 1, 2, ...).
NOID == 0

\* JavaScript truthiness of an optional string: undefined, null and "" are falsy.
Truthy(v) == v # NULL /\ v # EmptyText

\* JavaScript truthiness of an optional number: undefined, null and 0 are falsy.
TruthyNum(n) == n # NONUM /\ n # 0

\* JavaScript truthiness of an optional id string.
TruthyId(id) == id # NOID

\* `v || null` on an optional string.
OrNull(v) == IF Truthy(v) THEN v ELSE NULL

\* PostgreSQL LOWER() on one character, over the letters the model's texts use.
LowerChar(ch) ==
    CASE ch = "A" -> "a" [] ch = "B" -> "b" [] ch = "C" -> "c" [] ch = "D" -> "d"
      [] ch = "E" -> "e" [] ch = "H" -> "h" [] ch = "I" -> "i" [] ch = "L" -> "l"
      [] ch = "M" -> "m" [] ch = "N" -> "n" [] ch = "O" -> "o" [] ch = "P" -> "p"
      [] ch = "R" -> "r" [] ch = "S" -> "s" [] ch = "T" -> "t"
      [] OTHER -> ch

\* Mutant of LOWER: the text is compared as it is written.
LowerIsIdentity(s) == s

\* PostgreSQL LOWER() / String.prototype.toLowerCase().
LOWER(s) == [i \in 1..Len(s) |-> LowerChar(s[i])]

Range(seq) == {seq[i] : i \in DOMAIN seq}

Min(a, b) == IF a <= b THEN a ELSE b

DigitChars == <<"0", "1", "2", "3", "4", "5", "6", "7", "8", "9">>

\* String(n), and the text the driver hands over for a bigint or an integer.
RECURSIVE DecimalText(_)
DecimalText(n) ==
    IF n < 10 THEN <<DigitChars[n + 1]>>
    ELSE DecimalText(n \div 10) \o <<DigitChars[(n % 10) + 1]>>

RECURSIVE ParseDigits(_, _)
ParseDigits(t, acc) ==
    IF t = << >> \/ Head(t) \notin Range(DigitChars) THEN acc
    ELSE ParseDigits(Tail(t),
                     acc * 10 + (CHOOSE d \in 0..9 : DigitChars[d + 1] = Head(t)))

\* parseInt(t, 10) of a text that starts with a digit: the number its leading
\* digits write.
ParseInt(t) == ParseDigits(t, 0)

\* The text the driver hands over for a NUMERIC(2,1), kept here in tenths.
TenthsText(n) == DecimalText(n \div 10) \o <<".">> \o DecimalText(n % 10)

\* parseFloat(t) of such a text, in tenths.
ParseFloat(t) ==
    LET dot == CHOOSE i \in DOMAIN t : t[i] = "."
    IN  ParseInt(SubSeq(t, 1, dot - 1)) * 10 + ParseInt(SubSeq(t, dot + 1, Len(t)))

\* The JavaScript values of the numeric fields of a record: a number, a
\* string or null.
JsNumber(n) == [type |-> "number", value |-> n]
JsString(t) == [type |-> "string", value |-> t]
JsNull == [type |-> "null"]

\* How the driver hands over the value of an INTEGER column: as a number, or
\* as its text (what tools.ts says it expects of the driver).
DriverModes == {"number", "string"}

\* The driver's value for the INTEGER n.
FromInteger(n, as) == IF as = "string" THEN JsString(DecimalText(n)) ELSE JsNumber(n)

\* The driver's value for a NUMERIC(2,1) kept in tenths: its text, or null.
FromNumeric(n) == IF n = NONUM THEN JsNull ELSE JsString(TenthsText(n))

\* String(v) of a number or a string.
StringOf(v) == IF v.type = "string" THEN v.value ELSE DecimalText(v.value)

\* JavaScript truthiness of such a value.
JsTruthy(v) ==
    CASE v.type = "null" -> FALSE
      [] v.type = "string" -> v.value # << >>
      [] v.type = "number" -> v.value # 0

\* parseInt(String(v), 10).
ParsedInt(v) == JsNumber(ParseInt(StringOf(v)))

\* v ? parseFloat(String(v)) : null, in tenths.
ParsedRating(v) == IF JsTruthy(v) THEN JsNumber(ParseFloat(StringOf(v))) ELSE JsNull

\* The contractor row `row` as the driver hands it over.
DriverRow(row, as) ==
    [row EXCEPT !.day_rate = FromInteger(row.day_rate, as),
                !.years_experience = FromInteger(row.years_experience, as),
                !.rating = FromNumeric(row.rating),
                !.review_count = FromInteger(row.review_count, as),
                !.placement_count = FromInteger(row.placement_count, as)]

(***************************************************************************)
(* The seeded tables                                                       *)
(***************************************************************************)
ContractorIds == {"c1", "c2", "c3"}
\* An id no contractor row has.
UnknownContractor == "c9"

SeedContractors ==
    [c \in ContractorIds |->
        CASE c = "c1" ->
               [id |-> "c1", name |-> Ann, title |-> Auditor, bio |-> NULL,
                location |-> London, day_rate |-> 500, years_experience |-> 8,
                availability |-> "available", certifications |-> <<ISO>>,
                sectors |-> <<Banking>>, skills |-> <<SIEM>>, rating |-> 48,
                review_count |-> 10, placement_count |-> 5,
                security_clearance |-> SC]
          [] c = "c2" ->
               [id |-> "c2", name |-> Bob, title |-> Pentester, bio |-> NULL,
                location |-> London, day_rate |-> 650, years_experience |-> 3,
                availability |-> "within_30", certifications |-> <<CISSP>>,
                sectors |-> <<Banking>>, skills |-> <<Pentest>>, rating |-> NONUM,
                review_count |-> 0, placement_count |-> 0,
                security_clearance |-> NULL]
          [] c = "c3" ->
               [id |-> "c3", name |-> Cy, title |-> Analyst, bio |-> NULL,
                location |-> Leeds, day_rate |-> 400, years_experience |-> 12,
                availability |-> "unavailable", certifications |-> <<ISO, CISSP>>,
                sectors |-> <<NHS>>, skills |-> <<SIEM, Pentest>>, rating |-> 45,
                review_count |-> 4, placement_count |-> 2,
                security_clearance |-> SC]]

JobIds == {"j1", "j2"}
\* An id no job row has.
UnknownJob == "j9"

SeedJobs ==
    [j \in JobIds |->
        CASE j = "j1" ->
               [id |-> "j1", title |-> Auditor, location |-> LONDON,
                required_certifications |-> <<ISO>>, required_skills |-> << >>,
                required_clearance |-> NULL, experience_min |-> NONUM,
                day_rate_max |-> 500, sector |-> Banking, status |-> "open",
                urgency |-> "urgent", created_at |-> 1]
          [] j = "j2" ->
               [id |-> "j2", title |-> Pentester, location |-> Leeds,
                required_certifications |-> << >>, required_skills |-> <<Pentest>>,
                required_clearance |-> SC, experience_min |-> 5,
                day_rate_max |-> NONUM, sector |-> NHS, status |-> "shortlisting",
                urgency |-> "critical", created_at |-> 2]]

(***************************************************************************)
(* The store's evaluation of a parameterised query                         *)
(***************************************************************************)
\* PostgreSQL `s LIKE p`: % stands for any text, _ for any one character.
\* (The escape character \ occurs in no text of the model.)
RECURSIVE Like(_, _)
Like(s, p) ==
    IF p = << >> THEN s = << >>
    ELSE IF Head(p) = "%" THEN Like(s, Tail(p)) \/ (s # << >> /\ Like(Tail(s), p))
    ELSE IF s = << >> THEN FALSE
    ELSE (Head(p) = "_" \/ Head(p) = Head(s)) /\ Like(Tail(s), Tail(p))

\* COALESCE(bio, '').
Coalesce(v) == IF v = NULL THEN EmptyText ELSE v

\* Mutant of SameText: the texts are compared with their letter case folded.
SameTextFolded(a, b) == LOWER(a) = LOWER(b)

\* PostgreSQL `a = b` on two texts that are not NULL.
SameText(a, b) == a = b

\* One predicate of a WHERE clause: its text, $n standing for the placeholder
\* the builder numbered n.
Cond(sql, n) == [sql |-> sql, n |-> n]

\* Whether row `row` (of contractors or of jobs) satisfies predicate `cond` with the bound
\* parameters `values`.  A comparison with NULL is not true.
Holds(cond, values, row) ==
    LET v == values[cond.n] IN
    CASE cond.sql = "LOWER(location) = LOWER($n)" ->
            LOWER(row.location) = LOWER(v)
      [] cond.sql = "availability = $n" -> row.availability = v
      [] cond.sql = "certifications && $n" ->
            Range(row.certifications) \cap Range(v) # {}
      [] cond.sql = "skills && $n" -> Range(row.skills) \cap Range(v) # {}
      [] cond.sql = "day_rate <= $n" -> row.day_rate <= v
      [] cond.sql = "$n = ANY(sectors)" ->
            \E i \in DOMAIN row.sectors : SameText(v, row.sectors[i])
      [] cond.sql = "years_experience >= $n" -> row.years_experience >= v
      [] cond.sql = "security_clearance = $n" ->
            row.security_clearance # NULL /\ SameText(row.security_clearance, v)
      [] cond.sql = "(LOWER(name) LIKE LOWER($n) OR LOWER(title) LIKE LOWER($n) OR LOWER(COALESCE(bio, '')) LIKE LOWER($n) OR EXISTS (SELECT 1 FROM unnest(skills) s WHERE LOWER(s) LIKE LOWER($n)))" ->
            \/ Like(LOWER(row.name), LOWER(v))
            \/ Like(LOWER(row.title), LOWER(v))
            \/ Like(LOWER(Coalesce(row.bio)), LOWER(v))
            \/ \E i \in DOMAIN row.skills : Like(LOWER(row.skills[i]), LOWER(v))
      [] cond.sql = "availability != 'unavailable'" ->
            row.availability # "unavailable"
      [] cond.sql = "status = $n" -> row.status = v
      [] cond.sql = "LOWER(sector) = LOWER($n)" ->
            row.sector # NULL /\ LOWER(row.sector) = LOWER(v)
      [] cond.sql = "urgency = $n" -> row.urgency = v

\* Mutant of Where: the predicates are joined by OR.
WhereAny(rows, conditions, values) ==
    {c \in DOMAIN rows :
        \E i \in DOMAIN conditions : Holds(conditions[i], values, rows[c])}

\* conditions.join(" AND "): the rows of `rows` the WHERE clause keeps; an
\* empty clause keeps them all.
Where(rows, conditions, values) ==
    {c \in DOMAIN rows :
        \A i \in DOMAIN conditions : Holds(conditions[i], values, rows[c])}

\* The orders in which the store may return the rows S under an ORDER BY whose
\* keys put a strictly before b when Before(a, b): rows the keys do not
\* separate come in any order.
Orderings(S, Before(_, _)) ==
    {q \in [1..Cardinality(S) -> S] :
        /\ Range(q) = S
        /\ \A i, j \in 1..Cardinality(S) : i < j => ~Before(q[j], q[i])}

\* Mutant of Limit: no LIMIT clause.
LimitIgnored(q, n) == q

\* LIMIT n.
Limit(q, n) == SubSeq(q, 1, Min(n, Len(q)))

\* The builder's state: the predicates and the bound values pushed so far, and
\* the next placeholder number.
NewBuilder == [conditions |-> << >>, values |-> << >>, paramIndex |-> 1]

\* Mutant of Push: the value is written into the predicate's text.
PushInline(b, sql, v) ==
    [conditions |-> Append(b.conditions,
                           [sql |-> sql, n |-> b.paramIndex, inline |-> v]),
     values |-> Append(b.values, v),
     paramIndex |-> b.paramIndex + 1]

\* The text of the query a builder's state gives: the predicates of its WHERE
\* clause, joined by AND, and the placeholder of its LIMIT.
QueryText(b) == [where |-> b.conditions, limit |-> b.paramIndex]

\* conditions.push(sql); values.push(v); paramIndex++.
Push(b, sql, v) ==
    [conditions |-> Append(b.conditions, Cond(sql, b.paramIndex)),
     values |-> Append(b.values, v),
     paramIndex |-> b.paramIndex + 1]

(***************************************************************************)
(* Bounds of the model                                                     *)
(***************************************************************************)
MaxShortlists == 1
MaxEngagements == 2
MaxDrafts == 1
MaxCalls == 3

\* The concurrent agent sessions.
Sessions == {"s1", "s2"}

VARIABLES
    contractors,      \* table contractors: id -> row
    jobs,             \* table jobs: id -> row
    shortlists,       \* table shortlists, in insertion order; a row's id is its position
    shortlist_items,  \* table shortlist_items, in insertion (added_at) order
    engagements,      \* table engagements, in insertion order
    outreach_drafts,  \* table outreach_drafts, in insertion order
    pc,               \* per session: the await its running operation is at, or "idle"
    call,             \* per session: the running operation and its arguments
    frame,            \* per session: the locals of the running operation
    done,             \* the operation the latest step completed, with what it
                      \* returned or threw and a note of what its statements did
                      \* (no operation reads the note); NotDone when that step
                      \* completed none
    input,            \* the arguments the searching session calls with
    ncalls            \* operations started so far

vars == <<contractors, jobs, shortlists, shortlist_items, engagements,
          outreach_drafts, pc, call, frame, done, input, ncalls>>

store == <<contractors, jobs, shortlists, shortlist_items, engagements,
           outreach_drafts>>

NoCall == [op |-> "none"]
NoFrame == [queries |-> 0]
NotDone == [call |-> NoCall]
\* Nothing to record about the statements of a completed operation.
NoNote == [wrote |-> "none"]
\* A rejected pool.query: the promise of the operation rejects with the store's fault.
Thrown(what) == [thrown |-> what]

NoInput == [op |-> "none"]

InitStore ==
    /\ contractors = SeedContractors
    /\ jobs = SeedJobs
    /\ shortlists = << >>
    /\ shortlist_items = << >>
    /\ engagements = << >>
    /\ outreach_drafts = << >>
    /\ pc = [s \in Sessions |-> "idle"]
    /\ call = [s \in Sessions |-> NoCall]
    /\ frame = [s \in Sessions |-> NoFrame]
    /\ done = NotDone
    /\ ncalls = 0

Init == InitStore /\ input = NoInput

\* The calls of the shortlist lifecycle scenario, in order.
Scenario ==
    <<"create_shortlist", "add_to_shortlist", "get_shortlist",
      "update_candidate_status", "get_shortlist">>

\* The operations a behaviour may start.
CallBudget == IF input.op = "scenario" THEN Len(Scenario) ELSE MaxCalls

\* Session s calls an operation: its first pool.query is sent in the same step.
Start(s) ==
    /\ pc[s] = "idle"
    /\ ncalls < CallBudget
    /\ ncalls' = ncalls + 1
    /\ UNCHANGED input

\* The running operation of s resumes from the await `at`.
Resume(s, at) ==
    /\ pc[s] = at
    /\ UNCHANGED <<ncalls, input>>

\* The operation c of s returns v (or rejects with it) after `n` pool.query
\* calls, `note` recording what its statements did.
ReturnsNoting(s, c, n, v, note) ==
    /\ pc' = [pc EXCEPT ![s] = "idle"]
    /\ call' = [call EXCEPT ![s] = NoCall]
    /\ frame' = [frame EXCEPT ![s] = NoFrame]
    /\ done' = [session |-> s, call |-> c, queries |-> n, ret |-> v, note |-> note]

Returns(s, c, n, v) == ReturnsNoting(s, c, n, v, NoNote)

\* The operation c of s goes on to the await `at` with locals f.
Awaits(s, c, at, f) ==
    /\ pc' = [pc EXCEPT ![s] = at]
    /\ call' = [call EXCEPT ![s] = c]
    /\ frame' = [frame EXCEPT ![s] = f]
    /\ done' = NotDone

ShortlistExists(sid) == sid \in 1..Len(shortlists)

(***************************************************************************)
(* createShortlist                                                         *)
(***************************************************************************)
CreateShortlist(s) ==
    /\ Len(shortlists) < MaxShortlists
    /\ Start(s)
    /\ LET row == [id |-> Len(shortlists) + 1, status |-> "active"]
       IN  /\ shortlists' = Append(shortlists, row)
           /\ Returns(s, [op |-> "create_shortlist"], 1, row)
    /\ UNCHANGED <<contractors, jobs, shortlist_items, engagements, outreach_drafts>>

\* The positions of the shortlist_items rows of the pair (sid, cid).
ItemsOf(items, sid, cid) ==
    {i \in DOMAIN items : items[i].shortlist_id = sid /\ items[i].contractor_id = cid}

ContractorArgs == {"c1", "c2", UnknownContractor}
ShortlistArgs == 1..MaxShortlists
NotesArgs == {NULL, EmptyText, StrongFit, Backup}
ItemStatusArgs == {"contacted", "declined"}

(***************************************************************************)
(* addToShortlist                                                          *)
(***************************************************************************)
\* SELECT name, title FROM contractors WHERE id = $1, and the early return.
AddSelectContractor(s, sid, cid, notes) ==
    /\ Start(s)
    /\ LET c == [op |-> "add_to_shortlist", shortlist_id |-> sid,
                 contractor_id |-> cid, notes |-> notes]
       IN  IF cid \in DOMAIN contractors
           THEN Awaits(s, c, "add_upsert",
                       [queries |-> 1, contractor |-> contractors[cid]])
           ELSE Returns(s, c, 1, [error |-> "Contractor not found"])
    /\ UNCHANGED store

\* Mutant of UpsertItem: a plain INSERT on a table without the UNIQUE constraint.
UpsertItemAlwaysInserts(items, sid, cid, notes) ==
    Append(items, [shortlist_id |-> sid, contractor_id |-> cid,
                   notes |-> notes, status |-> "shortlisted"])

\* Mutant of UpsertItem: ON CONFLICT DO NOTHING.
UpsertItemKeepsNotes(items, sid, cid, notes) ==
    IF ItemsOf(items, sid, cid) # {} THEN items
    ELSE Append(items, [shortlist_id |-> sid, contractor_id |-> cid,
                        notes |-> notes, status |-> "shortlisted"])

\* Mutant of UpsertItem: the conflicting row is replaced by a fresh one.
UpsertItemReplacesRow(items, sid, cid, notes) ==
    IF ItemsOf(items, sid, cid) # {}
    THEN [i \in DOMAIN items |->
            IF i \in ItemsOf(items, sid, cid)
            THEN [items[i] EXCEPT !.notes = notes, !.status = "shortlisted"]
            ELSE items[i]]
    ELSE Append(items, [shortlist_id |-> sid, contractor_id |-> cid,
                        notes |-> notes, status |-> "shortlisted"])

\* INSERT INTO shortlist_items ... ON CONFLICT (shortlist_id, contractor_id)
\* DO UPDATE SET notes = EXCLUDED.notes on table `items`: the table after it.
UpsertItem(items, sid, cid, notes) ==
    IF ItemsOf(items, sid, cid) # {}
    THEN [i \in DOMAIN items |->
            IF i \in ItemsOf(items, sid, cid)
            THEN [items[i] EXCEPT !.notes = notes]
            ELSE items[i]]
    ELSE Append(items, [shortlist_id |-> sid, contractor_id |-> cid,
                        notes |-> notes, status |-> "shortlisted"])

\* The notes value addToShortlist binds: params.notes || null.
BoundNotes(notes) == OrNull(notes)

\* The upsert, which the foreign key shortlist_id REFERENCES shortlists(id)
\* rejects for a shortlist that does not exist, and the return.
AddUpsert(s) ==
    /\ Resume(s, "add_upsert")
    /\ LET sid == call[s].shortlist_id
           cid == call[s].contractor_id
           after == UpsertItem(shortlist_items, sid, cid, BoundNotes(call[s].notes))
       IN  IF ShortlistExists(sid)
           THEN /\ shortlist_items' = after
                /\ ReturnsNoting(s, call[s], 2,
                           [item |-> after[CHOOSE i \in ItemsOf(after, sid, cid) : TRUE],
                            contractor_name |-> frame[s].contractor.name,
                            contractor_title |-> frame[s].contractor.title],
                           IF ItemsOf(shortlist_items, sid, cid) = {}
                           THEN [wrote |-> "insert"]
                           ELSE [wrote |-> "update",
                                 replaced |-> shortlist_items[
                                     CHOOSE i \in ItemsOf(shortlist_items, sid, cid) : TRUE].notes])
           ELSE /\ shortlist_items' = shortlist_items
                /\ Returns(s, call[s], 2, Thrown("foreign key violation"))
    /\ UNCHANGED <<contractors, jobs, shortlists, engagements, outreach_drafts>>

(***************************************************************************)
(* updateShortlistItemStatus                                               *)
(***************************************************************************)
\* Mutant of SetItemStatus: the UPDATE matches no row.
SetItemStatusNoRow(items, sid, cid, status) == items

\* UPDATE shortlist_items SET status = $1 WHERE shortlist_id = $2 AND
\* contractor_id = $3 on table `items`: the table after it.
SetItemStatus(items, sid, cid, status) ==
    [i \in DOMAIN items |->
        IF i \in ItemsOf(items, sid, cid)
        THEN [items[i] EXCEPT !.status = status]
        ELSE items[i]]

UpdateShortlistItemStatus(s, sid, cid, status) ==
    /\ Start(s)
    /\ LET c == [op |-> "update_candidate_status", shortlist_id |-> sid,
                 contractor_id |-> cid, status |-> status]
           after == SetItemStatus(shortlist_items, sid, cid, status)
           hit == ItemsOf(shortlist_items, sid, cid)
       IN  /\ shortlist_items' = after
           /\ IF hit = {}
              THEN Returns(s, c, 1, [error |-> "Shortlist item not found"])
              ELSE Returns(s, c, 1, [item |-> after[CHOOSE i \in hit : TRUE]])
    /\ UNCHANGED <<contractors, jobs, shortlists, engagements, outreach_drafts>>

(***************************************************************************)
(* bookContractor                                                          *)
(***************************************************************************)
BookShortlistArgs == ShortlistArgs \cup {NOID}

\* Mutant of BookSelectContractor: the SELECT leaves out the contractors that
\* are 'unavailable'.
BookSelectAvailableOnly(s, cid, sid) ==
    /\ Len(engagements) + Cardinality({t \in Sessions : pc[t] = "book_insert"})
          < MaxEngagements
    /\ Start(s)
    /\ LET c == [op |-> "book_contractor", contractor_id |-> cid,
                 shortlist_id |-> sid]
       IN  IF cid \in DOMAIN contractors /\ contractors[cid].availability # "unavailable"
           THEN Awaits(s, c, "book_insert",
                       [queries |-> 1, contractor |-> contractors[cid]])
           ELSE Returns(s, c, 1, [error |-> "Contractor not found"])
    /\ UNCHANGED store

\* SELECT name, title, email FROM contractors WHERE id = $1, and the early return.
BookSelectContractor(s, cid, sid) ==
    /\ Len(engagements) + Cardinality({t \in Sessions : pc[t] = "book_insert"})
          < MaxEngagements
    /\ Start(s)
    /\ LET c == [op |-> "book_contractor", contractor_id |-> cid,
                 shortlist_id |-> sid]
       IN  IF cid \in DOMAIN contractors
           THEN Awaits(s, c, "book_insert",
                       [queries |-> 1, contractor |-> contractors[cid]])
           ELSE Returns(s, c, 1, [error |-> "Contractor not found"])
    /\ UNCHANGED store

\* INSERT INTO engagements (..., status) VALUES (..., 'confirmed'), which the
\* foreign key shortlist_id REFERENCES shortlists(id) rejects for a shortlist
\* that does not exist.
BookInsertEngagement(s) ==
    /\ Resume(s, "book_insert")
    /\ LET sid == call[s].shortlist_id
           row == [contractor_id |-> call[s].contractor_id,
                   shortlist_id |-> sid, status |-> "confirmed"]
       IN  IF TruthyId(sid) => ShortlistExists(sid)
           THEN /\ engagements' = Append(engagements, row)
                /\ Awaits(s, call[s], "book_availability",
                          [queries |-> 2, contractor |-> frame[s].contractor,
                           engagement |-> row])
           ELSE /\ engagements' = engagements
                /\ Returns(s, call[s], 2, Thrown("foreign key violation"))
    /\ UNCHANGED <<contractors, jobs, shortlists, shortlist_items, outreach_drafts>>

\* Mutant of SetUnavailable: the UPDATE matches no row.
SetUnavailableNoRow(rows, cid) == rows

\* UPDATE contractors SET availability = 'unavailable' WHERE id = $1 on table
\* `rows`: the table after it.
SetUnavailable(rows, cid) ==
    [c \in DOMAIN rows |->
        IF c = cid THEN [rows[c] EXCEPT !.availability = "unavailable"] ELSE rows[c]]

\* What bookContractor returns.
BookResult(f) ==
    [engagement |-> f.engagement, contractor_name |-> f.contractor.name,
     message |-> "booked"]

\* The UPDATE of the contractor; without a shortlist_id the operation returns.
BookSetUnavailable(s) ==
    /\ Resume(s, "book_availability")
    /\ contractors' = SetUnavailable(contractors, call[s].contractor_id)
    /\ IF TruthyId(call[s].shortlist_id)
       THEN Awaits(s, call[s], "book_item", [frame[s] EXCEPT !.queries = 3])
       ELSE Returns(s, call[s], 3, BookResult(frame[s]))
    /\ UNCHANGED <<jobs, shortlists, shortlist_items, engagements, outreach_drafts>>

\* UPDATE shortlist_items SET status = 'accepted' WHERE shortlist_id = $1 AND
\* contractor_id = $2, and the return.
BookAcceptItem(s) ==
    /\ Resume(s, "book_item")
    /\ shortlist_items' = SetItemStatus(shortlist_items, call[s].shortlist_id,
                                        call[s].contractor_id, "accepted")
    /\ Returns(s, call[s], 4, BookResult(frame[s]))
    /\ UNCHANGED <<contractors, jobs, shortlists, engagements, outreach_drafts>>

(***************************************************************************)
(* findMatchingContractors                                                 *)
(***************************************************************************)
\* limit || 10.
DefaultMatchLimit == 10

JobArgs == JobIds \cup {UnknownJob}
LimitArgs == {NONUM, 0, 1}

\* Mutant of FindGetJob: a missing job yields an empty match list.
FindGetJobEmptyOnMissing(s, jid, limit) ==
    /\ Start(s)
    /\ LET c == [op |-> "find_matching_contractors", job_id |-> jid, limit |-> limit]
       IN  IF jid \in DOMAIN jobs
           THEN Awaits(s, c, "find_query", [queries |-> 1, job |-> jobs[jid]])
           ELSE Returns(s, c, 1, [job |-> [id |-> jid, title |-> NULL, location |-> NULL],
                                  total_matches |-> 0, contractors |-> << >>])
    /\ UNCHANGED store

\* getJob(jobId): SELECT * FROM jobs WHERE id = $1, and the early return.
FindGetJob(s, jid, limit) ==
    /\ Start(s)
    /\ LET c == [op |-> "find_matching_contractors", job_id |-> jid, limit |-> limit]
       IN  IF jid \in DOMAIN jobs
           THEN Awaits(s, c, "find_query", [queries |-> 1, job |-> jobs[jid]])
           ELSE Returns(s, c, 1, [error |-> "Job not found"])
    /\ UNCHANGED store

\* Mutant of PushUnavailableExclusion: the predicate is not pushed.
PushNoExclusion(b) == b

\* conditions.push("availability != 'unavailable'"): the predicate takes no
\* parameter.
PushUnavailableExclusion(b) ==
    [b EXCEPT !.conditions = Append(@, Cond("availability != 'unavailable'", 0))]

\* The predicates findMatchingContractors builds from the job's requirements.
MatchBuilder(job) ==
    LET b1 == IF job.required_certifications # NULLARR
                 /\ Len(job.required_certifications) > 0
              THEN Push(NewBuilder, "certifications && $n", job.required_certifications)
              ELSE NewBuilder
        b2 == IF job.required_skills # NULLARR /\ Len(job.required_skills) > 0
              THEN Push(b1, "skills && $n", job.required_skills)
              ELSE b1
        b3 == IF Truthy(job.required_clearance)
              THEN Push(b2, "security_clearance = $n", job.required_clearance)
              ELSE b2
        b4 == IF TruthyNum(job.experience_min)
              THEN Push(b3, "years_experience >= $n", job.experience_min)
              ELSE b3
    IN  PushUnavailableExclusion(b4)

\* rating DESC NULLS LAST: a's rating sorts strictly before b's.
RatingBefore(a, b) ==
    \/ a.rating # NONUM /\ b.rating = NONUM
    \/ a.rating # NONUM /\ b.rating # NONUM /\ a.rating > b.rating

RatingTied(a, b) == a.rating = b.rating

\* CASE WHEN LOWER(location) = LOWER($n) THEN 0 ELSE 1 END.
LocationRank(row, location) == IF LOWER(row.location) = LOWER(location) THEN 0 ELSE 1

\* Mutant of MatchBefore: the location match is no sort key.
MatchBeforeWithoutLocation(a, b, location) ==
    \/ RatingBefore(a, b)
    \/ RatingTied(a, b) /\ a.years_experience > b.years_experience

\* ORDER BY of findMatchingContractors: location match, rating DESC NULLS
\* LAST, years_experience DESC.
MatchBefore(a, b, location) ==
    \/ LocationRank(a, location) < LocationRank(b, location)
    \/ /\ LocationRank(a, location) = LocationRank(b, location)
       /\ \/ RatingBefore(a, b)
          \/ RatingTied(a, b) /\ a.years_experience > b.years_experience

\* job.required_x?.filter(e => row.x?.includes(e)) || [].
Matching(required, have) ==
    IF required = NULLARR THEN << >>
    ELSE SelectSeq(required, LAMBDA e : have # NULLARR /\ e \in Range(have))

\* One element of the contractors list findMatchingContractors returns, for
\* the row `row` the driver handed over: the selected columns, three of them
\* parsed, and the annotations.
MatchEntry(row, job) ==
    [id |-> row.id, name |-> row.name, title |-> row.title,
     location |-> row.location, day_rate |-> ParsedInt(row.day_rate),
     years_experience |-> ParsedInt(row.years_experience),
     availability |-> row.availability,
     rating |-> ParsedRating(row.rating),
     review_count |-> row.review_count,
     matching_certifications |-> Matching(job.required_certifications, row.certifications),
     matching_skills |-> Matching(job.required_skills, row.skills),
     location_match |-> LOWER(row.location) = LOWER(job.location),
     within_budget |-> (\/ ~TruthyNum(job.day_rate_max)
                        \/ ParseInt(StringOf(row.day_rate)) <= job.day_rate_max)]

\* The SELECT ... FROM contractors WHERE ... ORDER BY ... LIMIT, the
\* annotation of its rows, and the return.
FindQuery(s) ==
    /\ Resume(s, "find_query")
    /\ LET job == frame[s].job
           b == MatchBuilder(job)
           maxResults == IF TruthyNum(call[s].limit) THEN call[s].limit
                         ELSE DefaultMatchLimit
           hit == Where(contractors, b.conditions, b.values)
       IN  \E as \in DriverModes, q \in Orderings(hit, LAMBDA x, y :
                        MatchBefore(contractors[x], contractors[y], job.location)) :
              LET rows == Limit(q, maxResults)
                  list == [i \in 1..Len(rows) |->
                              MatchEntry(DriverRow(contractors[rows[i]], as), job)]
              IN  Returns(s, call[s], 2,
                          [job |-> [id |-> job.id, title |-> job.title,
                                    location |-> job.location],
                           total_matches |-> Len(list),
                           contractors |-> list])
    /\ UNCHANGED store

(***************************************************************************)
(* getContractor, getContractorCV                                          *)
(***************************************************************************)
\* What the two profile reads return for the row `row` the driver handed
\* over: ...row with the five numeric columns parsed.
ProfileEntry(row) ==
    [row EXCEPT !.day_rate = ParsedInt(row.day_rate),
                !.years_experience = ParsedInt(row.years_experience),
                !.rating = ParsedRating(row.rating),
                !.review_count = ParsedInt(row.review_count),
                !.placement_count = ParsedInt(row.placement_count)]

\* SELECT ... FROM contractors WHERE id = $1; null for no row.
GetContractor(s, cid) ==
    /\ Start(s)
    /\ LET c == [op |-> "get_contractor", contractor_id |-> cid]
       IN  IF cid \in DOMAIN contractors
           THEN \E as \in DriverModes :
                   Returns(s, c, 1, ProfileEntry(DriverRow(contractors[cid], as)))
           ELSE Returns(s, c, 1, JsNull)
    /\ UNCHANGED store

\* The same read with the CV columns.
GetContractorCV(s, cid) ==
    /\ Start(s)
    /\ LET c == [op |-> "get_contractor_cv", contractor_id |-> cid]
       IN  IF cid \in DOMAIN contractors
           THEN \E as \in DriverModes :
                   Returns(s, c, 1, ProfileEntry(DriverRow(contractors[cid], as)))
           ELSE Returns(s, c, 1, JsNull)
    /\ UNCHANGED store

(***************************************************************************)
(* getShortlist                                                            *)
(***************************************************************************)
GetShortlistArgs == ShortlistArgs \cup {MaxShortlists + 1}

\* SELECT * FROM shortlists WHERE id = $1, and the early return of null.
GetShortlistSelect(s, sid) ==
    /\ Start(s)
    /\ LET c == [op |-> "get_shortlist", shortlist_id |-> sid]
       IN  IF ShortlistExists(sid)
           THEN Awaits(s, c, "get_shortlist_items",
                       [queries |-> 1, shortlist |-> shortlists[sid]])
           ELSE Returns(s, c, 1, JsNull)
    /\ UNCHANGED store

\* One element of candidates, for the joined row the driver handed over:
\* si.* and the selected contractor columns, day_rate and rating parsed.
Candidate(item, row) ==
    [shortlist_id |-> item.shortlist_id, contractor_id |-> item.contractor_id,
     notes |-> item.notes, status |-> item.status,
     name |-> row.name, title |-> row.title, location |-> row.location,
     day_rate |-> ParsedInt(row.day_rate), availability |-> row.availability,
     rating |-> ParsedRating(row.rating),
     certifications |-> row.certifications, skills |-> row.skills]

\* SELECT si.*, c.... FROM shortlist_items si JOIN contractors c ON
\* si.contractor_id = c.id WHERE si.shortlist_id = $1 ORDER BY si.added_at on
\* the tables `items` and `rows`.
Candidates(items, rows, sid, as) ==
    LET mine == SelectSeq(items, LAMBDA i : i.shortlist_id = sid
                                           /\ i.contractor_id \in DOMAIN rows)
    IN  [k \in 1..Len(mine) |->
            Candidate(mine[k], DriverRow(rows[mine[k].contractor_id], as))]

\* The second query and the return: the shortlist row with its candidates.
GetShortlistItems(s) ==
    /\ Resume(s, "get_shortlist_items")
    /\ \E as \in DriverModes :
          Returns(s, call[s], 2,
                  [id |-> frame[s].shortlist.id, status |-> frame[s].shortlist.status,
                   candidates |-> Candidates(shortlist_items, contractors,
                                             call[s].shortlist_id, as)])
    /\ UNCHANGED store

(***************************************************************************)
(* draftOutreach                                                           *)
(***************************************************************************)
\* Mutant of DraftSelectContractor: no existence check, so the INSERT of an
\* unknown contractor is rejected by the foreign key on contractor_id.
DraftSelectContractorUnvalidated(s, cid, sid) ==
    /\ Len(outreach_drafts) + Cardinality({t \in Sessions : pc[t] = "draft_insert"})
          < MaxDrafts
    /\ Start(s)
    /\ LET c == [op |-> "draft_outreach", contractor_id |-> cid,
                 shortlist_id |-> sid]
       IN  IF cid \in DOMAIN contractors
           THEN Awaits(s, c, "draft_insert",
                       [queries |-> 1, contractor |-> contractors[cid]])
           ELSE Returns(s, c, 1, Thrown("foreign key violation"))
    /\ UNCHANGED store

\* SELECT name, email FROM contractors WHERE id = $1, and the early return.
DraftSelectContractor(s, cid, sid) ==
    /\ Len(outreach_drafts) + Cardinality({t \in Sessions : pc[t] = "draft_insert"})
          < MaxDrafts
    /\ Start(s)
    /\ LET c == [op |-> "draft_outreach", contractor_id |-> cid,
                 shortlist_id |-> sid]
       IN  IF cid \in DOMAIN contractors
           THEN Awaits(s, c, "draft_insert",
                       [queries |-> 1, contractor |-> contractors[cid]])
           ELSE Returns(s, c, 1, [error |-> "Contractor not found"])
    /\ UNCHANGED store

\* INSERT INTO outreach_drafts (contractor_id, shortlist_id, subject, body),
\* status defaulting to 'draft', which the foreign key shortlist_id REFERENCES
\* shortlists(id) rejects for a shortlist that does not exist, and the return.
DraftInsert(s) ==
    /\ Resume(s, "draft_insert")
    /\ LET sid == call[s].shortlist_id
           row == [contractor_id |-> call[s].contractor_id,
                   shortlist_id |-> sid, status |-> "draft"]
       IN  IF TruthyId(sid) => ShortlistExists(sid)
           THEN /\ outreach_drafts' = Append(outreach_drafts, row)
                /\ Returns(s, call[s], 2,
                           [draft |-> row,
                            contractor_name |-> frame[s].contractor.name])
           ELSE /\ outreach_drafts' = outreach_drafts
                /\ Returns(s, call[s], 2, Thrown("foreign key violation"))
    /\ UNCHANGED <<contractors, jobs, shortlists, shortlist_items, engagements>>

(***************************************************************************)
(* updateJobStatus                                                         *)
(***************************************************************************)
JobStatusArgs == {"filled", "cancelled"}

\* UPDATE jobs SET status = $1 WHERE id = $2 on table `rows`: the table after it.
SetJobStatus(rows, jid, status) ==
    [j \in DOMAIN rows |->
        IF j = jid THEN [rows[j] EXCEPT !.status = status] ELSE rows[j]]

UpdateJobStatus(s, jid, status) ==
    /\ Start(s)
    /\ LET c == [op |-> "update_job_status", job_id |-> jid, status |-> status]
           after == SetJobStatus(jobs, jid, status)
       IN  /\ jobs' = after
           /\ IF jid \in DOMAIN jobs
              THEN Returns(s, c, 1, after[jid])
              ELSE Returns(s, c, 1, [error |-> "Job not found"])
    /\ UNCHANGED <<contractors, shortlists, shortlist_items, engagements,
                   outreach_drafts>>

(***************************************************************************)
(* The shortlist lifecycle, one caller                                     *)
(***************************************************************************)
ScenarioInputs ==
    [op : {"scenario"}, contractor_id : ContractorIds, notes : NotesArgs,
     status : ItemStatusArgs]

\* The session that runs the scenario.
Caller == "s1"

ScenarioInit == InitStore /\ input \in ScenarioInputs

\* The call of the scenario that is due.
Due(op) == ncalls < Len(Scenario) /\ Scenario[ncalls + 1] = op

\* One caller makes the calls of Scenario in order, awaiting each; S is the
\* id create_shortlist returned.
ScenarioNext ==
    \E s \in {Caller} :
        \/ Due("create_shortlist") /\ CreateShortlist(s)
        \/ Due("add_to_shortlist")
           /\ AddSelectContractor(s, Len(shortlists), input.contractor_id, input.notes)
        \/ AddUpsert(s)
        \/ Due("get_shortlist") /\ GetShortlistSelect(s, Len(shortlists))
        \/ GetShortlistItems(s)
        \/ Due("update_candidate_status")
           /\ UpdateShortlistItemStatus(s, Len(shortlists), input.contractor_id,
                                        input.status)

ScenarioSpec == ScenarioInit /\ [][ScenarioNext]_vars

(***************************************************************************)
(* The store fails                                                         *)
(***************************************************************************)
\* The pool.query a running operation awaits next is rejected (connectivity
\* loss, timeout): nothing catches it, the operation rejects, and what it
\* wrote before stays written.
QueryRejected(s) ==
    /\ pc[s] # "idle"
    /\ Returns(s, call[s], frame[s].queries + 1, Thrown("store failure"))
    /\ UNCHANGED <<store, ncalls, input>>

Next ==
    \E s \in Sessions :
        \/ CreateShortlist(s)
        \/ \E sid \in ShortlistArgs, cid \in ContractorArgs, notes \in NotesArgs :
              AddSelectContractor(s, sid, cid, notes)
        \/ AddUpsert(s)
        \/ \E sid \in ShortlistArgs, cid \in ContractorArgs, st \in ItemStatusArgs :
              UpdateShortlistItemStatus(s, sid, cid, st)
        \/ \E cid \in ContractorArgs, sid \in BookShortlistArgs :
              BookSelectContractor(s, cid, sid)
        \/ BookInsertEngagement(s)
        \/ BookSetUnavailable(s)
        \/ BookAcceptItem(s)
        \/ \E jid \in JobArgs, limit \in LimitArgs : FindGetJob(s, jid, limit)
        \/ FindQuery(s)
        \/ \E cid \in ContractorArgs : GetContractor(s, cid)
        \/ \E cid \in ContractorArgs : GetContractorCV(s, cid)
        \/ \E sid \in GetShortlistArgs : GetShortlistSelect(s, sid)
        \/ GetShortlistItems(s)
        \/ \E cid \in ContractorArgs, sid \in BookShortlistArgs :
              DraftSelectContractor(s, cid, sid)
        \/ DraftInsert(s)
        \/ \E jid \in JobArgs, st \in JobStatusArgs : UpdateJobStatus(s, jid, st)
        \/ QueryRejected(s)

Spec == Init /\ [][Next]_vars

(***************************************************************************)
(* searchContractors and listJobs                                          *)
(***************************************************************************)
\* An enum argument (availability, status, urgency) left out.
NoEnum == ""

\* JavaScript truthiness of an optional enum string.
TruthyEnum(v) == v # NoEnum

\* The nine filters of searchContractors, in the order of its if statements.
SearchFilters ==
    <<"location", "availability", "certifications", "skills", "max_rate",
      "sector", "min_experience", "clearance", "query">>

\* The four filters of listJobs, in the order of its if statements.
JobFilters == <<"status", "sector", "urgency", "location">>

\* Mutant of Included: availability "any" is a value like the others.
IncludedWithAny(p, f) ==
    CASE f \in {"availability", "status", "urgency"} -> TruthyEnum(p[f])
      [] f \in {"certifications", "skills"} -> p[f] # NULLARR /\ Len(p[f]) > 0
      [] f \in {"max_rate", "min_experience"} -> TruthyNum(p[f])
      [] OTHER -> Truthy(p[f])

\* The condition of the if statement of filter f.
Included(p, f) ==
    CASE f = "availability" -> TruthyEnum(p[f]) /\ p[f] # "any"
      [] f \in {"status", "urgency"} -> TruthyEnum(p[f])
      [] f \in {"certifications", "skills"} -> p[f] # NULLARR /\ Len(p[f]) > 0
      [] f \in {"max_rate", "min_experience"} -> TruthyNum(p[f])
      [] OTHER -> Truthy(p[f])

\* The predicate the if statement of filter f pushes.
PredicateOf(op, f) ==
    CASE f = "location" -> "LOWER(location) = LOWER($n)"
      [] f = "availability" -> "availability = $n"
      [] f = "certifications" -> "certifications && $n"
      [] f = "skills" -> "skills && $n"
      [] f = "max_rate" -> "day_rate <= $n"
      [] f = "sector" /\ op = "search_contractors" -> "$n = ANY(sectors)"
      [] f = "sector" /\ op = "list_jobs" -> "LOWER(sector) = LOWER($n)"
      [] f = "min_experience" -> "years_experience >= $n"
      [] f = "clearance" -> "security_clearance = $n"
      [] f = "query" -> "(LOWER(name) LIKE LOWER($n) OR LOWER(title) LIKE LOWER($n) OR LOWER(COALESCE(bio, '')) LIKE LOWER($n) OR EXISTS (SELECT 1 FROM unnest(skills) s WHERE LOWER(s) LIKE LOWER($n)))"
      [] f = "status" -> "status = $n"
      [] f = "urgency" -> "urgency = $n"

\* The value the if statement of filter f pushes: `%${params.query}%` for
\* query, the argument itself for the others.
ValueOf(p, f) == IF f = "query" THEN <<"%">> \o p[f] \o <<"%">> ELSE p[f]

\* The if statements of the filters `filters`, in order, from builder state b.
RECURSIVE PushFilters(_, _, _, _)
PushFilters(b, op, p, filters) ==
    IF filters = << >> THEN b
    ELSE PushFilters(IF Included(p, Head(filters))
                     THEN Push(b, PredicateOf(op, Head(filters)), ValueOf(p, Head(filters)))
                     ELSE b,
                     op, p, Tail(filters))

SearchBuilder(p) == PushFilters(NewBuilder, "search_contractors", p, SearchFilters)

ListJobsBuilder(p) == PushFilters(NewBuilder, "list_jobs", p, JobFilters)

\* params.limit || 10.
DefaultSearchLimit == 10
\* params.limit || 20.
DefaultJobsLimit == 20

SearchLimit(p) == IF TruthyNum(p.limit) THEN p.limit ELSE DefaultSearchLimit

JobsLimit(p) == IF TruthyNum(p.limit) THEN p.limit ELSE DefaultJobsLimit

\* SELECT COUNT(*) as total FROM contractors WHERE ..., on table `rows`, and
\* parseInt(countResult.rows[0].total, 10).
TotalMatches(b, rows) ==
    ParseInt(DecimalText(Cardinality(Where(rows, b.conditions, b.values))))

\* Mutant of SearchBefore: ORDER BY rating DESC NULLS LAST alone.
SearchBeforeByRatingOnly(a, b) == RatingBefore(a, b)

\* ORDER BY rating DESC NULLS LAST, review_count DESC.
SearchBefore(a, b) ==
    \/ RatingBefore(a, b)
    \/ RatingTied(a, b) /\ a.review_count > b.review_count

\* SELECT ... FROM contractors WHERE ... ORDER BY ... LIMIT $paramIndex with
\* values.push(limit), on table `rows`: the id lists the store may answer.
SearchPages(b, limit, rows) ==
    LET values == Append(b.values, limit)
    IN  {Limit(q, values[b.paramIndex]) :
            q \in Orderings(Where(rows, b.conditions, values),
                            LAMBDA x, y : SearchBefore(rows[x], rows[y]))}

\* One element of the contractors list searchContractors returns, for the
\* row `row` the driver handed over.
SearchEntry(row) ==
    [row EXCEPT !.day_rate = ParsedInt(row.day_rate),
                !.years_experience = ParsedInt(row.years_experience),
                !.rating = ParsedRating(row.rating),
                !.review_count = ParsedInt(row.review_count),
                !.placement_count = ParsedInt(row.placement_count)]

\* What searchContractors returns for the count totalMatches and the page
\* `page` of table `rows`, handed over by the driver in mode `as`.
SearchResult(totalMatches, page, rows, as) ==
    [total_matches |-> totalMatches,
     showing |-> Len(page),
     contractors |-> [i \in 1..Len(page) |-> SearchEntry(DriverRow(rows[page[i]], as))]]

SearchCall(p) == [op |-> "search_contractors", params |-> p]

\* The builder, the count query and parseInt of its answer.
SearchCount(s) ==
    /\ input.op = "search_contractors"
    /\ Start(s)
    /\ LET b == SearchBuilder(input.params)
       IN  Awaits(s, SearchCall(input.params), "search_page",
                  [queries |-> 1, builder |-> b, limit |-> SearchLimit(input.params),
                   totalMatches |-> TotalMatches(b, contractors)])
    /\ UNCHANGED store

\* The page query and the return.
SearchPage(s) ==
    /\ Resume(s, "search_page")
    /\ \E as \in DriverModes,
          page \in SearchPages(frame[s].builder, frame[s].limit, contractors) :
          ReturnsNoting(s, call[s], 2,
                        SearchResult(frame[s].totalMatches, page, contractors, as),
                        [wrote |-> "none", text |-> QueryText(frame[s].builder)])
    /\ UNCHANGED store

\* CASE urgency WHEN 'critical' THEN 1 WHEN 'urgent' THEN 2 WHEN 'normal'
\* THEN 3 WHEN 'low' THEN 4 END.
UrgencyRank(u) ==
    CASE u = "critical" -> 1 [] u = "urgent" -> 2 [] u = "normal" -> 3 [] u = "low" -> 4

\* ORDER BY of listJobs: urgency rank, created_at DESC.
JobBefore(a, b) ==
    \/ UrgencyRank(a.urgency) < UrgencyRank(b.urgency)
    \/ UrgencyRank(a.urgency) = UrgencyRank(b.urgency) /\ a.created_at > b.created_at

\* listJobs: the builder, its one query and the return.
ListJobs(s) ==
    /\ input.op = "list_jobs"
    /\ Start(s)
    /\ LET b == ListJobsBuilder(input.params)
           values == Append(b.values, JobsLimit(input.params))
       IN  \E q \in Orderings(Where(jobs, b.conditions, values),
                              LAMBDA x, y : JobBefore(jobs[x], jobs[y])) :
              LET page == Limit(q, values[b.paramIndex])
              IN  ReturnsNoting(s, [op |-> "list_jobs", params |-> input.params], 1,
                                [total |-> Len(page),
                                 jobs |-> [i \in 1..Len(page) |-> jobs[page[i]]]],
                                [wrote |-> "none", text |-> QueryText(b)])
    /\ UNCHANGED store

\* What stands for an argument left out.
AbsentOf(f) ==
    CASE f \in {"availability", "status", "urgency"} -> NoEnum
      [] f \in {"certifications", "skills"} -> NULLARR
      [] f \in {"max_rate", "min_experience", "limit"} -> NONUM
      [] OTHER -> NULL

\* A value for each filter of searchContractors, under which the seeded
\* contractors differ.
SearchPrimary ==
    [location |-> London, availability |-> "available", certifications |-> <<ISO>>,
     skills |-> <<Pentest>>, max_rate |-> 500, sector |-> Banking,
     min_experience |-> 8, clearance |-> SC, query |-> siem]

\* A value for each filter of listJobs.
JobsPrimary ==
    [status |-> "open", sector |-> Banking, urgency |-> "urgent", location |-> London]

\* The arguments that supply the filters `names` with the values of `primary`,
\* and the limit `limit`.
Arguments(filters, primary, names, limit) ==
    [f \in Range(filters) \cup {"limit"} |->
        IF f = "limit" THEN limit
        ELSE IF f \in names THEN primary[f] ELSE AbsentOf(f)]

\* Other values of single filters: other letter cases, injection strings,
\* falsy values and the availability values.
SearchVariants ==
    {[Arguments(SearchFilters, SearchPrimary, {}, NONUM) EXCEPT ![fv[1]] = fv[2]] :
        fv \in {<<"location", london>>, <<"location", LONDON>>,
                <<"location", DropInjection>>, <<"location", EmptyText>>,
                <<"availability", "any">>, <<"availability", "within_30">>,
                <<"availability", "unavailable">>,
                <<"certifications", << >> >>, <<"max_rate", 0>>,
                <<"min_experience", 0>>,
                <<"sector", OrInjection>>, <<"clearance", DropInjection>>,
                <<"sector", banking>>, <<"clearance", sc>>,
                <<"query", DropInjection>>, <<"query", OrInjection>>,
                <<"query", EmptyText>>, <<"query", AnyLetter>>,
                <<"query", AnyText>>, <<"query", Auditor>>}}

JobsVariants ==
    {[Arguments(JobFilters, JobsPrimary, {}, NONUM) EXCEPT ![fv[1]] = fv[2]] :
        fv \in {<<"location", london>>, <<"location", DropInjection>>,
                <<"location", EmptyText>>, <<"sector", OrInjection>>,
                <<"sector", EmptyText>>, <<"status", "filled">>}}

\* Every combination of filters with the availability "any".
SearchWithAny ==
    {[Arguments(SearchFilters, SearchPrimary, names, limit)
         EXCEPT !["availability"] = "any"] :
        names \in SUBSET (Range(SearchFilters) \ {"availability"}),
        limit \in LimitArgs}

\* The calls of searchContractors and listJobs the model makes: every
\* combination of filters, with and without a limit, and the variants.
SearchInputs ==
    {SearchCall(p) :
        p \in {Arguments(SearchFilters, SearchPrimary, names, limit) :
                  names \in SUBSET Range(SearchFilters), limit \in LimitArgs}
              \cup SearchWithAny \cup SearchVariants}
    \cup
    {[op |-> "list_jobs", params |-> p] :
        p \in {Arguments(JobFilters, JobsPrimary, names, limit) :
                  names \in SUBSET Range(JobFilters), limit \in LimitArgs}
              \cup JobsVariants}

\* The session that searches, and the session that books meanwhile.
Readers == {"s1"}
Writers == {"s2"}

(***************************************************************************)
(* getPipeline                                                             *)
(***************************************************************************)
\* SELECT ... FROM jobs WHERE status NOT IN ('filled', 'cancelled') ORDER BY
\* the urgency rank, on table `rows`: the lists the store may answer.
OpenJobs(rows) ==
    LET open == {j \in DOMAIN rows : rows[j].status \notin {"filled", "cancelled"}}
    IN  {[i \in 1..Len(q) |->
            [id |-> q[i], status |-> rows[q[i]].status,
             urgency |-> rows[q[i]].urgency, location |-> rows[q[i]].location]] :
         q \in Orderings(open, LAMBDA x, y :
                  UrgencyRank(rows[x].urgency) < UrgencyRank(rows[y].urgency))}

\* COUNT(si.id) over the LEFT JOIN for shortlist sid, a bigint, which the
\* driver hands over as text.
CandidateCount(items, sid) ==
    JsString(DecimalText(Cardinality({i \in DOMAIN items : items[i].shortlist_id = sid})))

\* The sequence q, last element first.
Reversed(q) == [i \in 1..Len(q) |-> q[Len(q) + 1 - i]]

\* SELECT s.id, ..., s.status, COUNT(si.id) as candidate_count FROM shortlists s
\* LEFT JOIN shortlist_items si ... WHERE s.status = 'active' GROUP BY s.id
\* ORDER BY s.created_at DESC.
ActiveShortlists(lists, items) ==
    Reversed(
        [i \in 1..Len(SelectSeq(lists, LAMBDA r : r.status = "active")) |->
            LET r == SelectSeq(lists, LAMBDA x : x.status = "active")[i]
            IN  [id |-> r.id, status |-> r.status,
                 candidate_count |-> CandidateCount(items, r.id)]])

\* SELECT e.*, c.name as contractor_name FROM engagements e JOIN contractors c
\* ... WHERE e.status IN ('pending', 'confirmed', 'active') ORDER BY
\* e.start_date: the lists the store may answer, the start dates being any.
ActiveEngagements(rows, people) ==
    LET live == {i \in DOMAIN rows :
                    /\ rows[i].status \in {"pending", "confirmed", "active"}
                    /\ rows[i].contractor_id \in DOMAIN people}
    IN  {[i \in 1..Len(q) |->
            [id |-> q[i], contractor_id |-> rows[q[i]].contractor_id,
             shortlist_id |-> rows[q[i]].shortlist_id, status |-> rows[q[i]].status,
             contractor_name |-> people[rows[q[i]].contractor_id].name]] :
         q \in Orderings(live, LAMBDA x, y : FALSE)}

\* SELECT od.id, od.subject, od.status, c.name as contractor_name FROM
\* outreach_drafts od JOIN contractors c ... WHERE od.status = 'draft' ORDER BY
\* od.created_at DESC.
PendingOutreach(rows, people) ==
    LET at == SelectSeq([i \in 1..Len(rows) |-> i],
                        LAMBDA i : /\ rows[i].status = "draft"
                                   /\ rows[i].contractor_id \in DOMAIN people)
    IN  Reversed([k \in 1..Len(at) |->
                    [id |-> at[k], status |-> rows[at[k]].status,
                     contractor_name |-> people[rows[at[k]].contractor_id].name]])

\* The first query. The frame also keeps the tables as this query read them
\* (began) and as each query so far read them (read), which no statement reads.
PipelineJobs(s) ==
    /\ Start(s)
    /\ \E open \in OpenJobs(jobs) :
          Awaits(s, [op |-> "get_pipeline"], "pipeline_shortlists",
                 [queries |-> 1, openJobs |-> open, began |-> store,
                  read |-> <<store>>])
    /\ UNCHANGED store

PipelineShortlists(s) ==
    /\ Resume(s, "pipeline_shortlists")
    /\ Awaits(s, call[s], "pipeline_engagements",
              [queries |-> 2, openJobs |-> frame[s].openJobs,
               activeShortlists |-> ActiveShortlists(shortlists, shortlist_items),
               began |-> frame[s].began, read |-> Append(frame[s].read, store)])
    /\ UNCHANGED store

PipelineEngagements(s) ==
    /\ Resume(s, "pipeline_engagements")
    /\ \E live \in ActiveEngagements(engagements, contractors) :
          Awaits(s, call[s], "pipeline_outreach",
                 [queries |-> 3, openJobs |-> frame[s].openJobs,
                  activeShortlists |-> frame[s].activeShortlists,
                  activeEngagements |-> live, began |-> frame[s].began,
                  read |-> Append(frame[s].read, store)])
    /\ UNCHANGED store

\* What getPipeline returns: the four lists and their lengths.
PipelineResult(openJobs, activeShortlists, activeEngagements, pendingOutreach) ==
    [open_jobs |-> openJobs,
     active_shortlists |-> activeShortlists,
     active_engagements |-> activeEngagements,
     pending_outreach |-> pendingOutreach,
     summary |-> [open_jobs_count |-> Len(openJobs),
                  active_shortlists_count |-> Len(activeShortlists),
                  active_engagements_count |-> Len(activeEngagements),
                  pending_outreach_count |-> Len(pendingOutreach)]]

\* The fourth query and the return.
PipelineOutreach(s) ==
    /\ Resume(s, "pipeline_outreach")
    /\ ReturnsNoting(s, call[s], 4,
                     PipelineResult(frame[s].openJobs, frame[s].activeShortlists,
                                    frame[s].activeEngagements,
                                    PendingOutreach(outreach_drafts, contractors)),
                     [wrote |-> "none", began |-> frame[s].began,
                      read |-> Append(frame[s].read, store)])
    /\ UNCHANGED store

\* Rows other tools of the agency left in the store, with the statuses the
\* schema admits and the operations here never write.
ClosedShortlist == [id |-> 1, status |-> "closed"]
CompletedEngagement == [contractor_id |-> "c3", shortlist_id |-> NOID, status |-> "completed"]
SentDraft == [contractor_id |-> "c3", shortlist_id |-> NOID, status |-> "sent"]

PipelineInit ==
    /\ contractors = SeedContractors
    /\ jobs = SeedJobs
    /\ shortlists \in {<< >>, <<ClosedShortlist>>}
    /\ shortlist_items = << >>
    /\ engagements \in {<< >>, <<CompletedEngagement>>}
    /\ outreach_drafts \in {<< >>, <<SentDraft>>}
    /\ pc = [s \in Sessions |-> "idle"]
    /\ call = [s \in Sessions |-> NoCall]
    /\ frame = [s \in Sessions |-> NoFrame]
    /\ done = NotDone
    /\ ncalls = 0
    /\ input = NoInput

\* One session reads the pipeline while the other runs the lifecycle writes.
PipelineNext ==
    \/ \E s \in Readers :
          \/ PipelineJobs(s)
          \/ PipelineShortlists(s)
          \/ PipelineEngagements(s)
          \/ PipelineOutreach(s)
    \/ \E s \in Writers :
          \/ CreateShortlist(s)
          \/ \E cid \in ContractorIds \ {"c3"} : AddSelectContractor(s, 1, cid, NULL)
          \/ AddUpsert(s)
          \/ \E cid \in ContractorIds \ {"c3"} : DraftSelectContractor(s, cid, NOID)
          \/ DraftInsert(s)
          \/ \E cid \in ContractorIds \ {"c3"} : BookSelectContractor(s, cid, NOID)
          \/ BookInsertEngagement(s)
          \/ BookSetUnavailable(s)
          \/ \E jid \in JobIds, st \in JobStatusArgs : UpdateJobStatus(s, jid, st)

PipelineSpec == PipelineInit /\ [][PipelineNext]_vars

SearchInit == InitStore /\ input \in SearchInputs

SearchNext ==
    \/ \E s \in Readers :
          \/ SearchCount(s)
          \/ SearchPage(s)
          \/ ListJobs(s)
    \/ \E s \in Writers :
          \/ \E cid \in ContractorArgs : BookSelectContractor(s, cid, NOID)
          \/ BookInsertEngagement(s)
          \/ BookSetUnavailable(s)

SearchSpec == SearchInit /\ [][SearchNext]_vars

(***************************************************************************)
(* Ranking: other contractor and job tables                                *)
(***************************************************************************)
\* Ratings, review counts, years of experience and locations a seeded
\* contractor may have instead of its own.
Profiles ==
    {[rating |-> 48, review_count |-> 10, years_experience |-> 8, location |-> London],
     [rating |-> 48, review_count |-> 4, years_experience |-> 12, location |-> london],
     [rating |-> 45, review_count |-> 10, years_experience |-> 3, location |-> Leeds],
     [rating |-> NONUM, review_count |-> 0, years_experience |-> 3, location |-> London],
     [rating |-> NONUM, review_count |-> 4, years_experience |-> 8, location |-> Leeds]}

WithProfile(row, f) ==
    [row EXCEPT !.rating = f.rating, !.review_count = f.review_count,
                !.years_experience = f.years_experience, !.location = f.location]

\* The contractor tables: the first two seeded contractors with any profile.
RankedContractors ==
    {[c \in ContractorIds |->
         IF c = "c1" THEN WithProfile(SeedContractors[c], f1)
         ELSE IF c = "c2" THEN WithProfile(SeedContractors[c], f2)
         ELSE SeedContractors[c]] : f1 \in Profiles, f2 \in Profiles}

\* The job tables: the first seeded job with any location, maximum day rate
\* and required certifications.
RankedJobs ==
    {[j \in JobIds |->
         IF j = "j1"
         THEN [SeedJobs[j] EXCEPT !.location = loc, !.day_rate_max = max,
                                  !.required_certifications = certs]
         ELSE SeedJobs[j]] :
        loc \in {LONDON, Leeds}, max \in {NONUM, 0, 500},
        certs \in {<< >>, NULLARR, <<CISSP, ISO>>}}

\* The empty and all-default inputs of searchContractors.
DefaultInputs ==
    {SearchCall([Arguments(SearchFilters, SearchPrimary, {}, NONUM)
                    EXCEPT !["availability"] = a, !["certifications"] = certs,
                           !["skills"] = certs, !["query"] = q]) :
        a \in {NoEnum, "any"}, certs \in {NULLARR, << >>}, q \in {NULL, EmptyText}}

RankingInit ==
    /\ contractors \in RankedContractors
    /\ jobs \in RankedJobs
    /\ shortlists = << >>
    /\ shortlist_items = << >>
    /\ engagements = << >>
    /\ outreach_drafts = << >>
    /\ pc = [s \in Sessions |-> "idle"]
    /\ call = [s \in Sessions |-> NoCall]
    /\ frame = [s \in Sessions |-> NoFrame]
    /\ done = NotDone
    /\ ncalls = 0
    /\ input \in DefaultInputs

\* One session searches with its input and matches contractors to the jobs.
RankingNext ==
    \E s \in Readers :
        \/ SearchCount(s)
        \/ SearchPage(s)
        \/ \E limit \in LimitArgs : FindGetJob(s, "j1", limit)
        \/ FindQuery(s)

RankingSpec == RankingInit /\ [][RankingNext]_vars

(***************************************************************************)
(* authMiddleware                                                          *)
(***************************************************************************)
annMail == <<"a", "n", "n">>
AnnMail == <<"A", "n", "n">>
bobMail == <<"b", "o", "b">>
ApiKeyUser == <<"a", "p", "i", "-", "k", "e", "y", "-", "u", "s", "e", "r">>

\* The bearer tokens of the model: the configured key, Google ID tokens by the
\* email of their payload (one without an email), a Google access token, a
\* token Google does not know, and the empty token of the header "Bearer ".
Tokens == {"key", "id_ann", "id_Ann", "id_bob", "id_none", "access_ann", "bad", ""}

\* The Authorization headers: none, another scheme, and "Bearer " + token.
Headers ==
    {[scheme |-> "none", token |-> ""], [scheme |-> "Basic", token |-> "bad"]}
    \cup [scheme : {"Bearer"}, token : Tokens]

\* oauthClient.verifyIdToken: the payload of a token it accepts.
VerifyIdToken(token) ==
    CASE token = "id_ann" -> [ok |-> TRUE, email |-> annMail]
      [] token = "id_Ann" -> [ok |-> TRUE, email |-> AnnMail]
      [] token = "id_bob" -> [ok |-> TRUE, email |-> bobMail]
      [] token = "id_none" -> [ok |-> TRUE, email |-> NULL]
      [] OTHER -> [ok |-> FALSE, email |-> NULL]

\* fetch of the userinfo endpoint with the token as bearer.
UserInfo(token) ==
    IF token = "access_ann" THEN [ok |-> TRUE, email |-> annMail]
    ELSE [ok |-> FALSE, email |-> NULL]

\* verifyGoogleToken: the verified email, or NULL for null; a token the ID
\* verification rejects goes to the userinfo endpoint.
VerifyGoogleToken(token) ==
    IF VerifyIdToken(token).ok
    THEN (IF Truthy(VerifyIdToken(token).email) THEN VerifyIdToken(token).email ELSE NULL)
    ELSE IF ~UserInfo(token).ok THEN NULL
    ELSE IF Truthy(UserInfo(token).email) THEN UserInfo(token).email
    ELSE NULL

\* SELECT email FROM allowed_users WHERE email = $1 with email.toLowerCase().
IsUserAllowed(allowed, email) == LOWER(email) \in allowed

\* next() was called with req.userEmail set.
Passed(email) ==
    [next |-> 1, responses |-> 0, status |-> 0, error |-> "", www |-> FALSE,
     userEmail |-> email]

\* res.status(status)...json({error}) was sent, with or without the
\* WWW-Authenticate header.
Answered(status, error, www) ==
    [next |-> 0, responses |-> 1, status |-> status, error |-> error, www |-> www,
     userEmail |-> NULL]

\* The token is the configured MCP_API_KEY: apiKey && token === apiKey.
IsApiKey(token) == input.apiKey # "" /\ token = input.apiKey

\* The synchronous part of authMiddleware, up to the call of validateUser.
AuthEnter(s, header) ==
    /\ input.op = "auth"
    /\ Start(s)
    /\ LET c == [op |-> "auth", header |-> header]
       IN  IF header.scheme # "Bearer"
           THEN Returns(s, c, 0, Answered(401, "Unauthorized", TRUE))
           ELSE IF IsApiKey(header.token)
           THEN Returns(s, c, 0, Passed(ApiKeyUser))
           ELSE Awaits(s, c, "auth_verify", [queries |-> 0])
    /\ UNCHANGED store

\* validateUser: verifyGoogleToken resolves; without a user the promise
\* resolves to {allowed: false} and the then-handler answers 403.
AuthVerify(s) ==
    /\ Resume(s, "auth_verify")
    /\ LET email == VerifyGoogleToken(call[s].header.token)
       IN  IF email = NULL
           THEN Returns(s, call[s], 0, Answered(403, "Access denied", FALSE))
           ELSE Awaits(s, call[s], "auth_allowed", [queries |-> 0, email |-> email])
    /\ UNCHANGED store

\* isUserAllowed resolves and the then-handler calls next() or answers 403.
AuthAllowed(s) ==
    /\ Resume(s, "auth_allowed")
    /\ IF IsUserAllowed(input.allowed, frame[s].email)
       THEN Returns(s, call[s], 1, Passed(frame[s].email))
       ELSE Returns(s, call[s], 1, Answered(403, "Access denied", FALSE))
    /\ UNCHANGED store

\* The pool.query of isUserAllowed is rejected: validateUser rejects and the
\* catch-handler answers 401.
AuthStoreFails(s) ==
    /\ Resume(s, "auth_allowed")
    /\ ReturnsNoting(s, call[s], 1, Answered(401, "Invalid token", FALSE),
                     [wrote |-> "none", fault |-> TRUE])
    /\ UNCHANGED store

\* The configuration: MCP_API_KEY set or not, and the rows of allowed_users.
AuthInit ==
    /\ InitStore
    /\ input \in [op : {"auth"}, apiKey : {"key", ""},
                  allowed : SUBSET {annMail, bobMail}]

AuthNext ==
    \E s \in Sessions :
        \/ \E header \in Headers : AuthEnter(s, header)
        \/ AuthVerify(s)
        \/ AuthAllowed(s)
        \/ AuthStoreFails(s)

AuthSpec == AuthInit /\ [][AuthNext]_vars

(***************************************************************************)
(* Booking: C1, C2                                                         *)
(***************************************************************************)
\* The latest step returned bookContractor's success for a call that named a
\* shortlist.
BookedWithShortlist ==
    /\ done.call.op = "book_contractor"
    /\ "engagement" \in DOMAIN done.ret
    /\ TruthyId(done.call.shortlist_id)

ConfirmedEngagementOf(cid) ==
    \E i \in DOMAIN engagements :
        engagements[i].contractor_id = cid /\ engagements[i].status = "confirmed"

\* C1 as stated: when book_contractor returns success for contractor X with
\* shortlist S, X is 'unavailable', the shortlist item of (S, X) exists with
\* status 'accepted', and a 'confirmed' engagement references X, whatever the
\* state before, also when (S, X) never had an item.
C1_BookingSideEffects ==
    BookedWithShortlist =>
        /\ contractors[done.call.contractor_id].availability = "unavailable"
        /\ \E i \in ItemsOf(shortlist_items, done.call.shortlist_id,
                            done.call.contractor_id) :
              shortlist_items[i].status = "accepted"
        /\ ConfirmedEngagementOf(done.call.contractor_id)

\* C1 amended: when book_contractor returns success for contractor X with
\* shortlist S, X is 'unavailable', a 'confirmed' engagement references X, and
\* the shortlist item of (S, X), when the pair has one, has status 'accepted';
\* a pair without an item is left without one.
C1_BookingSideEffectsOnExistingItem ==
    BookedWithShortlist =>
        /\ contractors[done.call.contractor_id].availability = "unavailable"
        /\ \A i \in ItemsOf(shortlist_items, done.call.shortlist_id,
                            done.call.contractor_id) :
              shortlist_items[i].status = "accepted"
        /\ ConfirmedEngagementOf(done.call.contractor_id)

\* A booking returned success and its pair's item is there to be accepted.
C1_Witness ==
    /\ BookedWithShortlist
    /\ ItemsOf(shortlist_items, done.call.shortlist_id, done.call.contractor_id) # {}

\* C2 as stated: in no reachable state does a 'confirmed' engagement for
\* contractor X exist while X's availability is not 'unavailable'.
C2_BookingAtomic ==
    \A i \in DOMAIN engagements :
        engagements[i].status = "confirmed" =>
            contractors[engagements[i].contractor_id].availability = "unavailable"

(***************************************************************************)
(* Shortlist membership: C3, C4                                            *)
(***************************************************************************)
\* The latest step returned addToShortlist's success for a pair that already
\* had an item: the second of two calls for the pair.
AddedAgain ==
    /\ done.call.op = "add_to_shortlist"
    /\ "item" \in DOMAIN done.ret
    /\ done.note.wrote = "update"

\* The second call's notes differ from the first call's, which were not empty
\* and so are the notes it found stored.
WithOtherNotes ==
    /\ done.note.replaced # NULL
    /\ done.note.replaced # done.call.notes

\* C3 as stated: after the second of two add_to_shortlist calls for a pair,
\* made with different notes, the call has succeeded, the pair has exactly
\* one item and its notes are the notes of the second call.
C3_UpsertTakesSecondNotes ==
    (/\ done.call.op = "add_to_shortlist"
     /\ done.note.wrote = "update"
     /\ WithOtherNotes) =>
        /\ "item" \in DOMAIN done.ret
        /\ Cardinality(ItemsOf(shortlist_items, done.call.shortlist_id,
                               done.call.contractor_id)) = 1
        /\ \A i \in ItemsOf(shortlist_items, done.call.shortlist_id,
                            done.call.contractor_id) :
              shortlist_items[i].notes = done.call.notes

\* C3 amended: after the second of two add_to_shortlist calls for a pair
\* (with different notes or the same) the call has succeeded, the pair has
\* exactly one item, and its notes are the notes of the second call when
\* these are a non-empty text, and null when they are the empty text or
\* omitted.
C3_UpsertTakesSecondNotesOrNull ==
    (done.call.op = "add_to_shortlist" /\ done.note.wrote = "update") =>
        /\ "item" \in DOMAIN done.ret
        /\ Cardinality(ItemsOf(shortlist_items, done.call.shortlist_id,
                               done.call.contractor_id)) = 1
        /\ \A i \in ItemsOf(shortlist_items, done.call.shortlist_id,
                            done.call.contractor_id) :
              /\ done.call.notes \notin {NULL, EmptyText}
                    => shortlist_items[i].notes = done.call.notes
              /\ done.call.notes \in {NULL, EmptyText}
                    => shortlist_items[i].notes = NULL
              /\ done.ret.item = shortlist_items[i]

\* A second call replaced the notes of the first by other, non-empty notes.
C3_Witness ==
    /\ AddedAgain
    /\ WithOtherNotes
    /\ done.call.notes = Backup
    /\ done.ret.item.notes = Backup

\* C4: in every reachable state, whatever the interleaving of the sessions'
\* add_to_shortlist, update_candidate_status and book_contractor calls, no two
\* shortlist items have the same (shortlist, contractor) pair.
C4_OneItemPerPair ==
    \A i, j \in DOMAIN shortlist_items :
        (/\ shortlist_items[i].shortlist_id = shortlist_items[j].shortlist_id
         /\ shortlist_items[i].contractor_id = shortlist_items[j].contractor_id)
            => i = j

\* Two sessions were adding the same pair at once, and the later upsert met
\* the item of the earlier.
C4_Witness ==
    /\ AddedAgain
    /\ ncalls = 3
    /\ Len(shortlists) = 1
    /\ Len(shortlist_items) = 1

(***************************************************************************)
(* Matching: C5, C6                                                        *)
(***************************************************************************)
\* The latest step returned findMatchingContractors' match list.
Matched ==
    /\ done.call.op = "find_matching_contractors"
    /\ "contractors" \in DOMAIN done.ret

\* C5: no contractor whose availability is 'unavailable' is in the list
\* find_matching_contractors returns, for any job and limit, whatever else of
\* the job's requirements the contractor satisfies.
C5_UnavailableNeverMatched ==
    Matched =>
        \A i \in DOMAIN done.ret.contractors :
            /\ contractors[done.ret.contractors[i].id].availability # "unavailable"
            /\ done.ret.contractors[i].availability # "unavailable"

\* The contractors the requirements of job `job` admit, availability aside.
MeetsRequirements(job) ==
    LET b == MatchBuilder(job)
        others == SelectSeq(b.conditions,
                            LAMBDA c : c.sql # "availability != 'unavailable'")
    IN  Where(contractors, others, b.values)

\* A match list was returned for a job whose requirements a contractor booked
\* before meets.
C5_Witness ==
    /\ Matched
    /\ \E c \in MeetsRequirements(jobs[done.call.job_id]) :
          /\ ConfirmedEngagementOf(c)
          /\ contractors[c].availability = "unavailable"

\* C6: find_matching_contractors on a job id no job has returns
\* {error: "Job not found"} after the job lookup alone, with no query on
\* contractors; on an existing job it returns {job, total_matches,
\* contractors}, with 0 and the empty list when no contractor matches; the two
\* values differ.
C6_JobNotFoundDistinct ==
    (done.call.op = "find_matching_contractors" /\ "thrown" \notin DOMAIN done.ret) =>
        IF done.call.job_id \in DOMAIN jobs
        THEN /\ DOMAIN done.ret = {"job", "total_matches", "contractors"}
             /\ done.ret # [error |-> "Job not found"]
             /\ done.queries = 2
             /\ LET b == MatchBuilder(jobs[done.call.job_id])
                IN  Where(contractors, b.conditions, b.values) = {}
                       => /\ done.ret.total_matches = 0
                          /\ done.ret.contractors = << >>
        ELSE /\ done.ret = [error |-> "Job not found"]
             /\ done.queries = 1

\* An existing job matched by no contractor returned the empty match list.
C6_Witness ==
    /\ Matched
    /\ done.call.job_id \in DOMAIN jobs
    /\ done.ret.total_matches = 0
    /\ done.ret.contractors = << >>

(***************************************************************************)
(* Search: C7, C8, C9, C10                                                 *)
(***************************************************************************)
\* The latest step returned searchContractors' result.
Searched == done.call.op = "search_contractors"

\* No booking has changed a contractor: the searches so far read the seeded
\* table from their first query to their last.
Undisturbed == contractors = SeedContractors

\* The filters the arguments p supply.
Supplied(filters, p) == {f \in Range(filters) : p[f] # AbsentOf(f)}

\* The filters whose if statement the arguments p pass.
Applied(filters, p) == {f \in Range(filters) : Included(p, f)}

\* The ids of the contractors in a result of searchContractors.
Ids(ret) == {ret.contractors[i].id : i \in DOMAIN ret.contractors}

\* What searchContractors may return for the arguments p on a table `rows`
\* that no one changes meanwhile.
SearchResults(p, rows) ==
    LET b == SearchBuilder(p)
    IN  {SearchResult(TotalMatches(b, rows), page, rows, as) :
            page \in SearchPages(b, SearchLimit(p), rows), as \in DriverModes}

\* The arguments p with filter f alone.
Alone(p, f) ==
    [g \in DOMAIN p |-> IF g \in {f, "limit"} THEN p[g] ELSE AbsentOf(g)]

\* The arguments p with a limit that cuts no result.
Uncut(p) == [p EXCEPT !["limit"] = Cardinality(DOMAIN contractors)]

TextFor(op, names) ==
    IF op = "search_contractors"
    THEN QueryText(SearchBuilder(Arguments(SearchFilters, SearchPrimary, names, NONUM)))
    ELSE QueryText(ListJobsBuilder(Arguments(JobFilters, JobsPrimary, names, NONUM)))

FiltersOf(op) == IF op = "search_contractors" THEN SearchFilters ELSE JobFilters

\* The filters whose value is a text.
TextFilters == {"location", "sector", "clearance", "query"}

\* Some filter value of the arguments p is an injection string.
Injecting(p) ==
    \E f \in DOMAIN p \cap TextFilters : p[f] \in {DropInjection, OrInjection}

\* The latest step returned a well-formed result of search_contractors or
\* list_jobs.
WellFormed ==
    IF Searched
    THEN /\ DOMAIN done.ret = {"total_matches", "showing", "contractors"}
         /\ done.ret.total_matches \in Nat
         /\ done.ret.showing = Len(done.ret.contractors)
         /\ Ids(done.ret) \subseteq DOMAIN contractors
    ELSE /\ DOMAIN done.ret = {"total", "jobs"}
         /\ done.ret.total = Len(done.ret.jobs)
         /\ \A i \in DOMAIN done.ret.jobs : done.ret.jobs[i].id \in DOMAIN jobs

\* An injection string as a filter value gives a well-formed result and
\* leaves the contractor records as they were.
InjectionInert ==
    Injecting(done.call.params) =>
        /\ WellFormed
        /\ DOMAIN contractors = DOMAIN SeedContractors

\* C9 as stated: the query text of a search_contractors or list_jobs call is
\* that of every call supplying the same filter names, whatever the values;
\* and an injection string as a value is inert.
C9_TextFixedByNames ==
    done.call.op \in {"search_contractors", "list_jobs"} =>
        /\ done.note.text =
              TextFor(done.call.op, Supplied(FiltersOf(done.call.op), done.call.params))
        /\ InjectionInert

\* C9 amended: the query text of a search_contractors or list_jobs call is
\* that of every call applying the same filters, whatever the values, a filter
\* being applied when its value is supplied and is not the empty text, the
\* empty list, zero or the availability "any"; and an injection string as a
\* value is inert.
C9_TextFixedByAppliedFilters ==
    done.call.op \in {"search_contractors", "list_jobs"} =>
        /\ done.note.text =
              TextFor(done.call.op, Applied(FiltersOf(done.call.op), done.call.params))
        /\ InjectionInert

\* A search whose query is the DROP TABLE string returned the empty result.
C9_Witness ==
    /\ Searched
    /\ done.call.params.query = DropInjection
    /\ done.ret.total_matches = 0
    /\ done.ret.contractors = << >>
    /\ done.note.text = TextFor("search_contractors", {"query"})

LocationCases == {London, london, LONDON}

\* C10: for location values that differ only in letter case ("London",
\* "london", "LONDON") search_contractors returns the same total_matches and
\* the same contractors.
C10_LocationCaseInsensitive ==
    (Searched /\ Undisturbed /\ done.call.params.location \in LocationCases) =>
        \A location \in LocationCases :
            /\ done.ret \in SearchResults([done.call.params EXCEPT !["location"] = location],
                                          contractors)
            /\ SearchResults([done.call.params EXCEPT !["location"] = location],
                             contractors)
                  = SearchResults(done.call.params, contractors)

\* A search for "LONDON" returned the two contractors located in "London".
C10_Witness ==
    /\ Searched
    /\ Undisturbed
    /\ done.call.params.location = LONDON
    /\ done.ret.total_matches = 2
    /\ Ids(done.ret) = {"c1", "c2"}

(***************************************************************************)
(* Search: C11, C12                                                        *)
(***************************************************************************)
\* The latest step returned a search by clearance or sector and nothing
\* else, on the seeded table, under a limit that cuts nothing.
SearchedByClearanceOrSector ==
    /\ Searched
    /\ Undisturbed
    /\ Applied(SearchFilters, done.call.params) # {}
    /\ Applied(SearchFilters, done.call.params) \subseteq {"clearance", "sector"}
    /\ SearchLimit(done.call.params) >= Cardinality(DOMAIN contractors)

\* Contractor row `row` has the clearance and the sector the arguments p ask
\* for, the texts being compared by Same.
HasClearanceAndSector(row, p, Same(_, _)) ==
    /\ Included(p, "clearance") =>
          row.security_clearance # NULL /\ Same(row.security_clearance, p.clearance)
    /\ Included(p, "sector") =>
          \E i \in DOMAIN row.sectors : Same(row.sectors[i], p.sector)

\* C11 as stated: a contractor whose security_clearance, or one of whose
\* sectors, equals the filter value up to letter case is returned by
\* search_contractors, as for the location filter.
C11_ClearanceSectorCaseInsensitive ==
    SearchedByClearanceOrSector =>
        \A c \in DOMAIN contractors :
            HasClearanceAndSector(contractors[c], done.call.params,
                                  LAMBDA a, b : LOWER(a) = LOWER(b))
                => c \in Ids(done.ret)

\* C11 amended: the clearance filter and the sector filter of
\* search_contractors match exactly, letter case included: the contractors
\* returned are those whose security_clearance is the filter value (one of
\* whose sectors is the filter value), and a contractor for whom the value
\* differs in letter case only is not returned; of the text filters only
\* location (and the free-text query) folds the case.
C11_ClearanceSectorExact ==
    SearchedByClearanceOrSector =>
        Ids(done.ret) =
            {c \in DOMAIN contractors :
                HasClearanceAndSector(contractors[c], done.call.params,
                                      LAMBDA a, b : a = b)}

\* A search for the clearance "sc" returned nothing although contractors hold
\* the clearance "SC".
C11_Witness ==
    /\ SearchedByClearanceOrSector
    /\ done.call.params.clearance = sc
    /\ \E c \in DOMAIN contractors : contractors[c].security_clearance = SC
    /\ done.ret.total_matches = 0
    /\ done.ret.contractors = << >>

\* C12: search_contractors with availability "any" returns what the same
\* call without the availability filter returns (total_matches, showing and
\* contractors), for every combination of the other filters.
C12_AnyIsNoFilter ==
    (Searched /\ Undisturbed /\ done.call.params.availability = "any") =>
        /\ done.ret \in SearchResults([done.call.params EXCEPT !["availability"] = NoEnum],
                                      contractors)
        /\ SearchResults([done.call.params EXCEPT !["availability"] = NoEnum], contractors)
              = SearchResults(done.call.params, contractors)

\* A search with availability "any" and other filters returned contractors of
\* more than one availability.
C12_Witness ==
    /\ Searched
    /\ Undisturbed
    /\ done.call.params.availability = "any"
    /\ Applied(SearchFilters, done.call.params) # {}
    /\ Cardinality({done.ret.contractors[i].availability :
                       i \in DOMAIN done.ret.contractors}) >= 2

(***************************************************************************)
(* Numbers leaving the store: C13                                          *)
(***************************************************************************)
NumericFields ==
    {"day_rate", "years_experience", "rating", "review_count", "placement_count"}

\* The contractor records the latest step handed to its caller.
RecordsLeaving ==
    IF done.call.op \in {"search_contractors", "find_matching_contractors"}
       /\ "contractors" \in DOMAIN done.ret
    THEN Range(done.ret.contractors)
    ELSE IF done.call.op \in {"get_contractor", "get_contractor_cv"}
            /\ "id" \in DOMAIN done.ret
    THEN {done.ret}
    ELSE IF done.call.op = "get_shortlist" /\ "candidates" \in DOMAIN done.ret
    THEN Range(done.ret.candidates)
    ELSE {}

\* The stored row a leaving record was read from.
StoredRowOf(rec) ==
    contractors[IF "contractor_id" \in DOMAIN rec THEN rec.contractor_id ELSE rec.id]

\* The field f of the record is the number stored, a NULL rating is null.
LeavesAsNumber(rec, f) ==
    IF f = "rating" /\ StoredRowOf(rec).rating = NONUM
    THEN rec[f] = JsNull
    ELSE rec[f] = JsNumber(StoredRowOf(rec)[f])

\* C13: every contractor record an operation returns carries each of its
\* numeric fields (day rate, years of experience, rating, review count,
\* placement count) as a number, whichever way the driver handed the column
\* over, and a NULL rating as null.
C13_NumbersLeaveAsNumbers ==
    \A rec \in RecordsLeaving :
        \A f \in NumericFields \cap DOMAIN rec : LeavesAsNumber(rec, f)

\* C13 without the review count of find_matching_contractors: the fields the
\* operations do parse.
C13_ParsedFieldsLeaveAsNumbers ==
    \A rec \in RecordsLeaving :
        \A f \in NumericFields \cap DOMAIN rec :
            (done.call.op = "find_matching_contractors" /\ f = "review_count")
            \/ LeavesAsNumber(rec, f)

\* find_matching_contractors returned a contractor whose review count is text.
C13_ReviewCountLeftAsText ==
    /\ done.call.op = "find_matching_contractors"
    /\ \E rec \in RecordsLeaving : rec.review_count.type = "string"

\* A record with a NULL rating left get_shortlist, the driver handing text.
C13_NullRatingLeft ==
    /\ done.call.op = "get_shortlist"
    /\ \E rec \in RecordsLeaving : rec.rating = JsNull /\ rec.day_rate = JsNumber(650)

(***************************************************************************)
(* The shortlist lifecycle: C14                                            *)
(***************************************************************************)
\* The k-th call of the scenario, a get_shortlist, has just returned.
Fetched(k) ==
    /\ ncalls = k
    /\ done.call.op = "get_shortlist"
    /\ "candidates" \in DOMAIN done.ret

\* The only candidate of the fetched shortlist is A with these notes and status.
OnlyCandidate(notes, status) ==
    /\ Len(done.ret.candidates) = 1
    /\ done.ret.candidates[1].contractor_id = input.contractor_id
    /\ done.ret.candidates[1].name = contractors[input.contractor_id].name
    /\ done.ret.candidates[1].notes = notes
    /\ done.ret.candidates[1].status = status

\* C14 as stated: after create_shortlist and add_to_shortlist(S, A, notes n),
\* get_shortlist(S) returns exactly one candidate, with A's stored name, the
\* notes n and status 'shortlisted'; after update_candidate_status(S, A, st),
\* get_shortlist(S) returns exactly one candidate, with status st.
C14_FetchReflectsWrites ==
    /\ Fetched(3) => OnlyCandidate(input.notes, "shortlisted")
    /\ Fetched(5) => OnlyCandidate(input.notes, input.status)

\* C14 amended: the candidate carries the notes n when n is a non-empty text,
\* and null when n is the empty text or omitted.
C14_FetchReflectsWritesOrNull ==
    /\ Fetched(3) => OnlyCandidate(OrNull(input.notes), "shortlisted")
    /\ Fetched(5) => OnlyCandidate(OrNull(input.notes), input.status)

\* The second fetch returned the candidate with notes "strong fit", contacted.
C14_Witness ==
    /\ Fetched(5)
    /\ input.notes = StrongFit
    /\ input.status = "contacted"
    /\ OnlyCandidate(StrongFit, "contacted")

(***************************************************************************)
(* Missing entities: C15                                                   *)
(***************************************************************************)
\* The operation of event d referenced an entity the tables do not hold.
MissingEntity(d) ==
    \/ /\ d.call.op \in {"add_to_shortlist", "draft_outreach", "book_contractor"}
       /\ d.call.contractor_id \notin DOMAIN contractors
    \/ /\ d.call.op = "update_candidate_status"
       /\ ItemsOf(shortlist_items, d.call.shortlist_id, d.call.contractor_id) = {}
    \/ /\ d.call.op = "update_job_status"
       /\ d.call.job_id \notin DOMAIN jobs

NotFoundError(op) ==
    CASE op = "update_candidate_status" -> [error |-> "Shortlist item not found"]
      [] op = "update_job_status" -> [error |-> "Job not found"]
      [] OTHER -> [error |-> "Contractor not found"]

\* C15: a mutation whose referenced entity is missing (an unknown contractor
\* for add_to_shortlist, draft_outreach and book_contractor, no item of the
\* pair for update_candidate_status, an unknown job for update_job_status)
\* returns its error object as data and leaves every table as it was.
C15_MissingEntityIsData ==
    [][MissingEntity(done')
         => /\ done'.ret = NotFoundError(done'.call.op)
            /\ store' = store]_vars

\* book_contractor returned "Contractor not found" on a store that holds a
\* shortlist item.
C15_Witness ==
    /\ done.call.op = "book_contractor"
    /\ done.ret = [error |-> "Contractor not found"]
    /\ Len(shortlist_items) > 0

(***************************************************************************)
(* Unknown shortlists: C16                                                 *)
(***************************************************************************)
\* The operation of event d named an existing contractor and a shortlist the
\* table does not hold, and no loss of the store ended it.
UnknownShortlist(d) ==
    /\ d.call.op \in {"add_to_shortlist", "draft_outreach", "book_contractor"}
    /\ d.call.contractor_id \in DOMAIN contractors
    /\ TruthyId(d.call.shortlist_id)
    /\ ~ShortlistExists(d.call.shortlist_id)
    /\ d.ret # Thrown("store failure")

\* C16: add_to_shortlist, draft_outreach and book_contractor called with an
\* existing contractor and a shortlist id that does not exist return a
\* not-found error object, not a thrown store fault, and write nothing.
C16_UnknownShortlistIsData ==
    [][UnknownShortlist(done')
         => /\ "error" \in DOMAIN done'.ret
            /\ store' = store]_vars

\* The three operations write nothing for a shortlist that does not exist.
C16_UnknownShortlistWritesNothing ==
    [][UnknownShortlist(done') => store' = store]_vars

\* add_to_shortlist of an existing contractor to a shortlist that does not
\* exist was rejected by the store.
C16_ForeignKeyThrown ==
    /\ UnknownShortlist(done)
    /\ done.call.op = "add_to_shortlist"
    /\ done.ret = Thrown("foreign key violation")

(***************************************************************************)
(* list_jobs: C17                                                          *)
(***************************************************************************)
\* list_jobs has just returned.
Listed == done.call.op = "list_jobs"

\* The jobs that match the filters of the returned list_jobs.
MatchingJobs ==
    LET b == ListJobsBuilder(done.call.params)
    IN  Where(jobs, b.conditions, b.values)

\* C17 as stated: total is the number of all jobs matching the filters,
\* whatever the limit.
C17_TotalIgnoresPagination ==
    Listed => done.ret.total = Cardinality(MatchingJobs)

\* C17 amended: total is the number of rows on the returned page, the smaller
\* of the limit in force and the number of matching jobs.
C17_TotalIsPageLength ==
    Listed =>
        /\ done.ret.total = Len(done.ret.jobs)
        /\ done.ret.total = Min(JobsLimit(done.call.params), Cardinality(MatchingJobs))

\* list_jobs with limit 1 returned total 1 though two jobs match.
C17_Witness ==
    /\ Listed
    /\ done.call.params.limit = 1
    /\ Cardinality(MatchingJobs) = 2
    /\ done.ret.total = 1

(***************************************************************************)
(* Limits: C18                                                             *)
(***************************************************************************)
\* The records of a returned page, and the limit its call supplied.
PageReturned ==
    CASE Searched -> done.ret.contractors
      [] Listed -> done.ret.jobs
      [] done.call.op = "find_matching_contractors"
         /\ "contractors" \in DOMAIN done.ret -> done.ret.contractors
      [] OTHER -> << >>

LimitSupplied ==
    IF done.call.op = "find_matching_contractors" THEN done.call.limit
    ELSE IF Searched \/ Listed THEN done.call.params.limit
    ELSE NONUM

DefaultLimit ==
    IF Listed THEN DefaultJobsLimit
    ELSE IF Searched THEN DefaultSearchLimit
    ELSE DefaultMatchLimit

\* C18: search_contractors, list_jobs and find_matching_contractors return at
\* most `limit` records for every limit supplied, 0 included, and at most the
\* default (10, 20, 10) only when the limit is omitted.
C18_AtMostLimit ==
    Len(PageReturned) <= (IF LimitSupplied # NONUM THEN LimitSupplied ELSE DefaultLimit)

\* What the operations do: a limit of 0 counts as omitted.
C18_AtMostTruthyLimit ==
    Len(PageReturned) <= (IF TruthyNum(LimitSupplied) THEN LimitSupplied ELSE DefaultLimit)

\* search_contractors called with limit 0 returned every contractor.
C18_LimitZeroReturnsRecords ==
    /\ Searched
    /\ LimitSupplied = 0
    /\ Len(PageReturned) = Cardinality(DOMAIN contractors)

(***************************************************************************)
(* Numeric bounds: C19                                                     *)
(***************************************************************************)
\* Every returned contractor is within the bounds for which Given holds, and
\* with max_rate the only filter and no cut by the limit, the contractors
\* whose day_rate is exactly max_rate are returned.
WithinBounds(p, ret, Given(_)) ==
    /\ Given(p.max_rate) =>
          \A i \in DOMAIN ret.contractors :
              ret.contractors[i].day_rate.value <= p.max_rate
    /\ Given(p.min_experience) =>
          \A i \in DOMAIN ret.contractors :
              ret.contractors[i].years_experience.value >= p.min_experience
    /\ (/\ Given(p.max_rate)
        /\ Supplied(SearchFilters, p) = {"max_rate"}
        /\ SearchLimit(p) >= Cardinality(DOMAIN contractors))
          => \A c \in DOMAIN contractors :
                contractors[c].day_rate = p.max_rate => c \in Ids(ret)

\* C19: for every max_rate supplied to search_contractors, 0 included, every
\* returned contractor has day_rate <= max_rate and those at exactly max_rate
\* are included; for every min_experience supplied, every returned contractor
\* has years_experience >= min_experience.
C19_BoundsForEverySupplied ==
    Searched => WithinBounds(done.call.params, done.ret, LAMBDA n : n # NONUM)

\* What search_contractors does: the bounds hold for the values that are not 0.
C19_BoundsForNonZero ==
    Searched => WithinBounds(done.call.params, done.ret, TruthyNum)

\* search_contractors called with max_rate 0 returned a contractor with a
\* day rate above 0.
C19_MaxRateZeroUnbounded ==
    /\ Searched
    /\ done.call.params.max_rate = 0
    /\ \E i \in DOMAIN done.ret.contractors : done.ret.contractors[i].day_rate.value > 0

(***************************************************************************)
(* The pipeline: C20                                                       *)
(***************************************************************************)
\* get_pipeline has just returned and no write fell between its first query
\* and its last.
PipelineRead ==
    /\ done.call.op = "get_pipeline"
    /\ "summary" \in DOMAIN done.ret
    /\ done.note.began = store

\* The ids of the rows of a returned list, none of them twice.
ListedIds(list, ids) ==
    /\ {list[i].id : i \in DOMAIN list} = ids
    /\ Len(list) = Cardinality(ids)

ItemCount(sid) ==
    Cardinality({i \in DOMAIN shortlist_items : shortlist_items[i].shortlist_id = sid})

\* The lists of the returned pipeline are exactly the rows of the four
\* statuses, each candidate_count being Counted of the number of items, and
\* each summary count is the length of its list.
PipelineExact(ret, Counted(_)) ==
    /\ ListedIds(ret.open_jobs,
                 {j \in DOMAIN jobs : jobs[j].status \notin {"filled", "cancelled"}})
    /\ ListedIds(ret.active_shortlists,
                 {i \in DOMAIN shortlists : shortlists[i].status = "active"})
    /\ \A i \in DOMAIN ret.active_shortlists :
          ret.active_shortlists[i].candidate_count
              = Counted(ItemCount(ret.active_shortlists[i].id))
    /\ ListedIds(ret.active_engagements,
                 {i \in DOMAIN engagements :
                     engagements[i].status \in {"pending", "confirmed", "active"}})
    /\ ListedIds(ret.pending_outreach,
                 {i \in DOMAIN outreach_drafts : outreach_drafts[i].status = "draft"})
    /\ ret.summary.open_jobs_count = Len(ret.open_jobs)
    /\ ret.summary.active_shortlists_count = Len(ret.active_shortlists)
    /\ ret.summary.active_engagements_count = Len(ret.active_engagements)
    /\ ret.summary.pending_outreach_count = Len(ret.pending_outreach)

\* C20: get_pipeline returns exactly the jobs neither filled nor cancelled,
\* the active shortlists each with candidate_count equal to its number of
\* items (0 without items), the pending, confirmed and active engagements and
\* the outreach drafts with status draft, with each summary count the length
\* of its list.
C20_PipelineExact ==
    PipelineRead => PipelineExact(done.ret, JsNumber)

\* What get_pipeline returns: the same, with candidate_count the decimal text
\* of the number of items.
C20_PipelineExactTextCount ==
    PipelineRead => PipelineExact(done.ret, LAMBDA n : JsString(DecimalText(n)))

\* No step of a get_pipeline changes a table.
C20_PipelineChangesNothing ==
    [][(\E s \in Sessions :
            /\ pc[s] # pc'[s]
            /\ \/ call'[s].op = "get_pipeline"
               \/ done'.call.op = "get_pipeline" /\ done'.session = s)
         => store' = store]_vars

\* get_pipeline returned an active shortlist with one item, its
\* candidate_count the text "1", and left a completed engagement out.
C20_TextCountReturned ==
    /\ PipelineRead
    /\ \E i \in DOMAIN done.ret.active_shortlists :
          done.ret.active_shortlists[i].candidate_count = JsString(<<"1">>)
    /\ Len(done.ret.active_engagements) < Len(engagements)

(***************************************************************************)
(* Authentication: C21                                                     *)
(***************************************************************************)
\* authMiddleware has just finished with a request.
Authed == done.call.op = "auth"

\* The request carried a bearer token other than the configured key.
GoogleToken(h) == h.scheme = "Bearer" /\ ~IsApiKey(h.token)

\* The store failed while the allowlist was read.
StoreFailed == "fault" \in DOMAIN done.note

\* What C21 says of every request but the one with an invalid token, which
\* is answered with `invalid`.
AuthOutcomes(h, r, invalid) ==
    /\ r.next + r.responses = 1
    /\ r.next = 1 =>
          \/ h.scheme = "Bearer" /\ IsApiKey(h.token) /\ r.userEmail = ApiKeyUser
          \/ /\ GoogleToken(h)
             /\ VerifyGoogleToken(h.token) # NULL
             /\ LOWER(VerifyGoogleToken(h.token)) \in input.allowed
             /\ r.userEmail = VerifyGoogleToken(h.token)
    /\ h.scheme # "Bearer" => r.status = 401 /\ r.www
    /\ (/\ GoogleToken(h)
        /\ VerifyGoogleToken(h.token) # NULL
        /\ LOWER(VerifyGoogleToken(h.token)) \notin input.allowed
        /\ ~StoreFailed) => r.status = 403
    /\ (GoogleToken(h) /\ VerifyGoogleToken(h.token) = NULL) => r = invalid

\* C21: authMiddleware calls next() only for the configured key (userEmail
\* "api-key-user") or a valid Google token with an allowlisted email
\* (userEmail that email); it answers 401 with WWW-Authenticate without a
\* Bearer header, 403 for a valid token off the allowlist, 401 "Invalid
\* token" for an invalid token; and it calls next() or answers, never both.
C21_AuthOutcomes ==
    Authed => AuthOutcomes(done.call.header, done.ret,
                           Answered(401, "Invalid token", FALSE))

\* What authMiddleware does: an invalid token is answered 403 "Access denied"
\* like a valid one off the allowlist.
C21_InvalidTokenDenied ==
    Authed => AuthOutcomes(done.call.header, done.ret,
                           Answered(403, "Access denied", FALSE))

\* A token Google does not know was answered 403.
C21_InvalidTokenGot403 ==
    /\ Authed
    /\ done.call.header = [scheme |-> "Bearer", token |-> "bad"]
    /\ done.ret.status = 403

(***************************************************************************)
(* The standard order of search_contractors: C22                           *)
(***************************************************************************)
\* search_contractors has just returned for an input that applies no filter
\* and gives no limit.
SearchedByDefault ==
    /\ Searched
    /\ Applied(SearchFilters, done.call.params) = {}
    /\ done.call.params.limit = NONUM

\* Row a must come before row b: a higher rating, a rating against none, or
\* the same rating (or none both) and more reviews.
StandardBefore(a, b) ==
    \/ a.rating # NONUM /\ (b.rating = NONUM \/ a.rating > b.rating)
    \/ a.rating = b.rating /\ a.review_count > b.review_count

\* The ids of a returned list, in order.
IdsInOrder(list) == [i \in DOMAIN list |-> list[i].id]

\* The id list q is a duplicate-free prefix of the rows S of table `rows` in
\* an order that respects Before.
PrefixInOrder(q, S, rows, Before(_, _)) ==
    /\ Range(q) \subseteq S
    /\ \A i, j \in DOMAIN q : i < j => q[i] # q[j] /\ ~Before(rows[q[j]], rows[q[i]])
    /\ \A c \in S \ Range(q) : \A i \in DOMAIN q : ~Before(rows[c], rows[q[i]])

MatchedJob == jobs[done.call.job_id]

\* The contractors that pass the availability exclusion and the job's
\* requirement predicates.
Passing(job) ==
    {c \in MeetsRequirements(job) : contractors[c].availability # "unavailable"}

\* The location of row a equals the job's, letter case aside.
AtJobLocation(a) == LOWER(a.location) = LOWER(MatchedJob.location)

\* Row a must come before row b in a match list: at the job's location
\* against elsewhere; in the same group a higher rating or a rating against
\* none; with the same rating (or none both) more years of experience.
CandidateBefore(a, b) ==
    \/ AtJobLocation(a) /\ ~AtJobLocation(b)
    \/ /\ AtJobLocation(a) = AtJobLocation(b)
       /\ \/ a.rating # NONUM /\ (b.rating = NONUM \/ a.rating > b.rating)
          \/ a.rating = b.rating /\ a.years_experience > b.years_experience

\* C23: find_matching_contractors puts every candidate at the job's location
\* (case-insensitively) before every other, orders each group by rating
\* descending with null ratings last, then by years of experience descending,
\* and the limit keeps a prefix of this order.
C23_CandidatesInOrder ==
    Matched =>
        PrefixInOrder(IdsInOrder(done.ret.contractors), Passing(MatchedJob),
                      contractors, CandidateBefore)

\* A match list cut to one candidate kept the candidate at the job's location
\* and dropped a better rated one elsewhere.
C23_Witness ==
    /\ Matched
    /\ done.call.limit = 1
    /\ Len(done.ret.contractors) = 1
    /\ AtJobLocation(contractors[done.ret.contractors[1].id])
    /\ contractors[done.ret.contractors[1].id].rating = NONUM
    /\ \E c \in Passing(MatchedJob) :
          ~AtJobLocation(contractors[c]) /\ contractors[c].rating = 48

(***************************************************************************)
(* The annotations of find_matching_contractors: C24                       *)
(***************************************************************************)
\* The elements of a text[] value, none for NULL.
Elements(arr) == IF arr = NULLARR THEN {} ELSE Range(arr)

\* The annotations of every returned candidate are as C24 says, the job
\* having a maximum day rate when HasMaximum holds of its day_rate_max.
Annotated(job, list, HasMaximum(_)) ==
    \A i \in DOMAIN list :
        LET row == contractors[list[i].id]
        IN  /\ Range(list[i].matching_certifications)
                  = Elements(job.required_certifications) \cap Elements(row.certifications)
            /\ Range(list[i].matching_skills)
                  = Elements(job.required_skills) \cap Elements(row.skills)
            /\ list[i].location_match = (LOWER(row.location) = LOWER(job.location))
            /\ list[i].within_budget
                  = (HasMaximum(job.day_rate_max) => row.day_rate <= job.day_rate_max)

\* C24: for each candidate find_matching_contractors returns,
\* matching_certifications and matching_skills are the intersections of the
\* job's required lists with the candidate's, location_match is true iff the
\* locations are equal case-insensitively, and within_budget is true iff the
\* day rate is at most the job's day_rate_max, every candidate being within
\* budget only when the job has no day_rate_max.
C24_AnnotationsExact ==
    Matched => Annotated(MatchedJob, done.ret.contractors, LAMBDA n : n # NONUM)

\* What find_matching_contractors does: a day_rate_max of 0 is no maximum.
C24_AnnotationsZeroIsNoMaximum ==
    Matched => Annotated(MatchedJob, done.ret.contractors, TruthyNum)

\* A candidate with a day rate above 0 was returned within the budget of a job
\* whose day_rate_max is 0.
C24_WithinBudgetOfZero ==
    /\ Matched
    /\ MatchedJob.day_rate_max = 0
    /\ \E i \in DOMAIN done.ret.contractors :
          /\ done.ret.contractors[i].within_budget
          /\ contractors[done.ret.contractors[i].id].day_rate > 0

(***************************************************************************)
(* The match count of find_matching_contractors: C25                       *)
(***************************************************************************)
\* C25: total_matches of find_matching_contractors is the number of
\* contractors that pass the availability exclusion and the job's requirement
\* predicates, whatever the limit, so it exceeds the length of the returned
\* list when more candidates match than the limit.
C25_TotalMatchesIgnoresLimit ==
    Matched => done.ret.total_matches = Cardinality(Passing(MatchedJob))

\* What find_matching_contractors does: total_matches is the length of the
\* returned list.
C25_TotalMatchesIsListLength ==
    Matched => done.ret.total_matches = Len(done.ret.contractors)

\* Two contractors pass, the limit is 1, and total_matches is 1.
C25_TotalMatchesCut ==
    /\ Matched
    /\ done.call.limit = 1
    /\ Cardinality(Passing(MatchedJob)) = 2
    /\ done.ret.total_matches = 1

(***************************************************************************)
(* Double booking: C26                                                     *)
(***************************************************************************)
\* A book_contractor call that came back without a fault of the store.
Booked ==
    /\ done.call.op = "book_contractor"
    /\ "thrown" \notin DOMAIN done.ret

\* The engagements that reference contractor cid.
EngagementsOf(cid) ==
    {i \in 1..Len(engagements) : engagements[i].contractor_id = cid}

\* C26: book_contractor for an existing contractor is never refused, whatever
\* the contractor's availability and whatever engagements the contractor
\* already has: it returns a 'confirmed' engagement that is in the table, so
\* two calls for the same contractor, interleaved or one after the other, both
\* succeed and leave two 'confirmed' engagements for that contractor.
C26_BookingNeverRefused ==
    (Booked /\ done.call.contractor_id \in DOMAIN contractors) =>
        /\ "error" \notin DOMAIN done.ret
        /\ done.ret.engagement.contractor_id = done.call.contractor_id
        /\ done.ret.engagement.status = "confirmed"
        /\ \E i \in EngagementsOf(done.call.contractor_id) :
              engagements[i] = done.ret.engagement
        /\ contractors[done.call.contractor_id].availability = "unavailable"

\* Two overlapping bookings of one contractor: the call that returns last
\* inserted its engagement first, and the table holds two 'confirmed'
\* engagements for the contractor.
C26_DoubleBooked ==
    /\ Booked
    /\ "error" \notin DOMAIN done.ret
    /\ Len(engagements) = 2
    /\ EngagementsOf(done.call.contractor_id) = {1, 2}
    /\ \A i \in {1, 2} : engagements[i].status = "confirmed"
    /\ engagements[1] = done.ret.engagement
    /\ engagements[2] # done.ret.engagement

(***************************************************************************)
(* Who writes the contractors table: C27                                   *)
(***************************************************************************)
\* A book_contractor call that rejected after its INSERT INTO engagements.
FailedBooking ==
    /\ done.call.op = "book_contractor"
    /\ "thrown" \in DOMAIN done.ret
    /\ done.queries >= 3

\* C27: a contractor's availability is changed only by a successful
\* book_contractor for that contractor, and no other contractor field is ever
\* modified: while no book_contractor call has succeeded (the only engagement
\* of the table is the one of a call that rejected), every contractor is as
\* seeded.
C27_OnlySuccessfulBookingWrites ==
    (FailedBooking /\ Len(engagements) = 1) => contractors = SeedContractors

\* The part that holds of every step: a contractor row changes only in the
\* UPDATE of a book_contractor call for that contractor, only in availability
\* and only to 'unavailable', so an 'unavailable' contractor stays so.
C27_AvailabilityFrame ==
    [][/\ DOMAIN contractors' = DOMAIN contractors
       /\ \A c \in DOMAIN contractors :
             /\ contractors[c].availability = "unavailable"
                   => contractors'[c].availability = "unavailable"
             /\ contractors'[c] # contractors[c] =>
                   /\ \E s \in Sessions :
                         /\ pc[s] = "book_availability"
                         /\ call[s].contractor_id = c
                         /\ pc'[s] # pc[s]
                   /\ contractors'[c] =
                         [contractors[c] EXCEPT !.availability = "unavailable"]]_vars

\* A book_contractor call rejected at its last query and left its contractor
\* 'unavailable'.
C27_FailedBookingWrote ==
    /\ FailedBooking
    /\ Len(engagements) = 1
    /\ SeedContractors[done.call.contractor_id].availability # "unavailable"
    /\ contractors[done.call.contractor_id].availability = "unavailable"

(***************************************************************************)
(* addToShortlist on a shortlist that has candidates                       *)
(***************************************************************************)
\* The statuses update_candidate_status and book_contractor leave on an item.
ItemStatuses ==
    {"shortlisted", "contacted", "interviewing", "offered", "accepted",
     "declined", "withdrawn"}

\* The shortlist_items tables of one shortlist with c1 on it and, in some, c2
\* after c1: rows in the order of added_at.
ListedItems ==
    LET Rows(cid) == [shortlist_id : {1}, contractor_id : {cid},
                      notes : {NULL, StrongFit}, status : ItemStatuses]
    IN  {<<a>> : a \in Rows("c1")}
           \cup {<<a, b>> : <<a, b>> \in Rows("c1") \X Rows("c2")}

ReaddInit ==
    /\ contractors = SeedContractors
    /\ jobs = SeedJobs
    /\ shortlists = <<[id |-> 1, status |-> "active"]>>
    /\ shortlist_items \in ListedItems
    /\ engagements = << >>
    /\ outreach_drafts = << >>
    /\ pc = [s \in Sessions |-> "idle"]
    /\ call = [s \in Sessions |-> NoCall]
    /\ frame = [s \in Sessions |-> NoFrame]
    /\ done = NotDone
    /\ ncalls = 0
    /\ input = [op |-> "readd"]

\* Sessions add contractors to the shortlist and move candidates on.
ReaddNext ==
    \E s \in Sessions :
        \/ \E sid \in ShortlistArgs, cid \in ContractorArgs, notes \in NotesArgs :
              AddSelectContractor(s, sid, cid, notes)
        \/ AddUpsert(s)
        \/ \E sid \in ShortlistArgs, cid \in ContractorArgs, st \in ItemStatusArgs :
              UpdateShortlistItemStatus(s, sid, cid, st)

ReaddSpec == ReaddInit /\ [][ReaddNext]_vars

(***************************************************************************)
(* Re-adding a candidate: C28                                              *)
(***************************************************************************)
\* Session s is at the upsert of add_to_shortlist for a pair that has its item.
Readding(s) ==
    /\ pc[s] = "add_upsert"
    /\ pc'[s] = "idle"
    /\ ItemsOf(shortlist_items, call[s].shortlist_id, call[s].contractor_id) # {}

\* C28: re-adding a contractor that is on the shortlist changes only the notes
\* of that item (updated_at is not in the model): the item keeps its status
\* and its place in the order of added_at, no row is added, the items of the
\* other pairs are as they were, and notes that are omitted are stored as null.
C28_ReaddWritesNotesOnly ==
    [][\A s \in Sessions :
          Readding(s) =>
              LET mine == ItemsOf(shortlist_items, call[s].shortlist_id,
                                  call[s].contractor_id)
              IN  /\ DOMAIN shortlist_items' = DOMAIN shortlist_items
                  /\ \A i \in DOMAIN shortlist_items :
                        IF i \in mine
                        THEN /\ shortlist_items'[i].status = shortlist_items[i].status
                             /\ shortlist_items'[i].shortlist_id = call[s].shortlist_id
                             /\ shortlist_items'[i].contractor_id = call[s].contractor_id
                             /\ shortlist_items'[i].notes
                                   \in {call[s].notes, NULL}
                             /\ call[s].notes = NULL
                                   => shortlist_items'[i].notes = NULL
                             /\ (call[s].notes \notin {NULL, EmptyText})
                                   => shortlist_items'[i].notes = call[s].notes
                        ELSE shortlist_items'[i] = shortlist_items[i]]_vars

\* A candidate that was moved on and had notes is re-added without notes, next
\* to another candidate: the item keeps its status and its notes are null.
C28_Witness ==
    /\ done.call.op = "add_to_shortlist"
    /\ done.call.notes = NULL
    /\ done.note.wrote = "update"
    /\ done.note.replaced = StrongFit
    /\ done.ret.item.status \in {"contacted", "accepted"}
    /\ done.ret.item.notes = NULL
    /\ Len(shortlist_items) = 2

(***************************************************************************)
(* The free-text query of search_contractors: C29                          *)
(***************************************************************************)
\* Text q occurs in text t, letter for letter.
Occurs(q, t) ==
    \E i \in 0..(Len(t) - Len(q)) : SubSeq(t, i + 1, i + Len(q)) = q

\* Text q occurs, whatever the letter case, in the name, the title, the bio or
\* a skill of contractor row.
OccursIn(q, row) ==
    \/ Occurs(LOWER(q), LOWER(row.name))
    \/ Occurs(LOWER(q), LOWER(row.title))
    \/ row.bio # NULL /\ Occurs(LOWER(q), LOWER(row.bio))
    \/ \E i \in DOMAIN row.skills : Occurs(LOWER(q), LOWER(row.skills[i]))

\* A search_contractors call with a free-text query and no other filter
\* returned, no booking having fallen into it.
SearchedByQuery ==
    /\ Searched
    /\ Undisturbed
    /\ Supplied(SearchFilters, done.call.params) = {"query"}
    /\ Truthy(done.call.params.query)

\* The contractors in whom text q occurs.
Literally(q) == {c \in DOMAIN contractors : OccursIn(q, contractors[c])}

WithWildcard(q) == \E i \in DOMAIN q : q[i] \in {"%", "_"}

\* C29: the free-text query of search_contractors matches a contractor iff
\* the query occurs literally, whatever the letter case, in the name, the
\* title, the bio or a skill; '%' and '_' in the query are literal text.  The
\* matches are counted by total_matches and the page is taken from them.
C29_QueryIsLiteralText ==
    SearchedByQuery =>
        /\ Ids(done.ret) \subseteq Literally(done.call.params.query)
        /\ done.ret.total_matches = Cardinality(Literally(done.call.params.query))

\* What holds: a query without '%' and '_' matches iff it occurs literally.
C29_QueryWithoutWildcards ==
    (SearchedByQuery /\ ~WithWildcard(done.call.params.query)) =>
        /\ Ids(done.ret) \subseteq Literally(done.call.params.query)
        /\ done.ret.total_matches = Cardinality(Literally(done.call.params.query))

\* The query a_n returned Ann, in no field of whom a_n occurs.
C29_UnderscoreMatchedALetter ==
    /\ SearchedByQuery
    /\ done.call.params.query = AnyLetter
    /\ "c1" \in Ids(done.ret)
    /\ ~OccursIn(AnyLetter, contractors["c1"])

(***************************************************************************)
(* The pipeline under concurrent writes: C30                               *)
(***************************************************************************)
\* get_pipeline has just returned.
PipelineReturned ==
    /\ done.call.op = "get_pipeline"
    /\ "summary" \in DOMAIN done.ret

\* The number of rows that differ between the tables x and the later tables
\* y, rows being added and changed and never removed.
RowsWritten(x, y) ==
    Cardinality({c \in DOMAIN x[1] : x[1][c] # y[1][c]})
       + Cardinality({j \in DOMAIN x[2] : x[2][j] # y[2][j]})
       + (Len(y[3]) - Len(x[3]))
       + Cardinality({i \in DOMAIN x[4] : x[4][i] # y[4][i]})
       + (Len(y[4]) - Len(x[4]))
       + (Len(y[5]) - Len(x[5]))
       + (Len(y[6]) - Len(x[6]))

\* At most one write fell between two consecutive queries of the call, so the
\* tables as its four queries read them are all the states the store was in
\* during the call.
EveryStateRead ==
    \A k \in 1..3 : RowsWritten(done.note.read[k], done.note.read[k + 1]) <= 1

\* The returned pipeline is the pipeline of the tables x.
SnapshotOf(ret, x) ==
    /\ ret.open_jobs \in OpenJobs(x[2])
    /\ ret.active_shortlists = ActiveShortlists(x[3], x[4])
    /\ ret.active_engagements \in ActiveEngagements(x[5], x[1])
    /\ ret.pending_outreach = PendingOutreach(x[6], x[1])
    /\ ret.summary.open_jobs_count = Len(ret.open_jobs)
    /\ ret.summary.active_shortlists_count = Len(ret.active_shortlists)
    /\ ret.summary.active_engagements_count = Len(ret.active_engagements)
    /\ ret.summary.pending_outreach_count = Len(ret.pending_outreach)

\* C30: the four lists and the summary get_pipeline returns are those of one
\* single state the store was in during the call, also when lifecycle writes
\* commit between its four queries.
C30_PipelineIsOneState ==
    (PipelineReturned /\ EveryStateRead) =>
        \E k \in 1..4 : SnapshotOf(done.ret, done.note.read[k])

\* What holds: each list is the one of the tables as its own query read them.
C30_EachListOfItsQuery ==
    PipelineReturned =>
        /\ done.ret.open_jobs \in OpenJobs(done.note.read[1][2])
        /\ done.ret.active_shortlists
              = ActiveShortlists(done.note.read[2][3], done.note.read[2][4])
        /\ done.ret.active_engagements
              \in ActiveEngagements(done.note.read[3][5], done.note.read[3][1])
        /\ done.ret.pending_outreach
              = PendingOutreach(done.note.read[4][6], done.note.read[4][1])

\* A job was closed after the first query and a shortlist created before the
\* second: the returned pipeline lists the job as open next to the shortlist.
C30_TornPipeline ==
    /\ PipelineReturned
    /\ EveryStateRead
    /\ \E i \in DOMAIN done.ret.open_jobs :
          jobs[done.ret.open_jobs[i].id].status \in {"filled", "cancelled"}
    /\ Len(done.ret.active_shortlists) > Len(ActiveShortlists(done.note.began[3],
                                                              done.note.began[4]))

====
